---- MODULE Spec2Model ----
(***************************************************************************)
(* A model of the Ranges library: the lazy views of Views.h (AppendView,   *)
(* ChunkView, ConcatView, OrderedView), the adaptors of RangeAdaptors.h    *)
(* that build them, and the eager terminal adaptors.                       *)
(*                                                                         *)
(* A behaviour is one client program: it picks a source range and an       *)
(* adaptor and applies the adaptor (range | adaptor).  A terminal adaptor  *)
(* returns or throws in that step.  For a lazy view the client then drives *)
(* either the forward loop                                                 *)
(*     for (it = view.begin(); it != view.end(); ++it)                     *)
(*         out.push_back(it.operator*());                                  *)
(* or the backward loop of std::views::reverse                             *)
(*     for (it = view.end(); it != view.begin(); )                         *)
(*         { --it; out.push_back(it.operator*()); }                        *)
(* one iterator operation per step, and may ask a sized view for size().   *)
(* The client of an OrderedView may also assign through its cursor.        *)
(* Iterators over the source are offsets 0 .. Len(range); offset           *)
(* Len(range) is the source's end().                                       *)
(*                                                                         *)
(* In Spec the size given to Chunk and the position given to ElementAt     *)
(* stay far below PTRDIFF_MAX, so their conversion from size_t to the      *)
(* signed difference type keeps the value.  SizeSpec drops that limit for  *)
(* ChunkView::size(), whose arithmetic is done in size_t.                  *)
(* SnapshotSpec lets the owner of the range an OrderedView borrows change  *)
(* it, FaultSpec gives OrderBy a projection that throws, and RangeSpec     *)
(* iterates what the factory Range(start, count) returns.                  *)
(***************************************************************************)
EXTENDS Integers, Sequences, FiniteSets, TLC

\* Bounds of the model: the longest source, the longest operand of Concat,
\* the largest element, the largest size given to Chunk, the number of
\* traversals of one OrderedView and the largest element of Concat's
\* operands.  SizeBits is the width of size_t and of
\* the iterators' difference type, scaled down from 64 bits, and IntBits
\* the width of int, scaled down from 32 bits.
MaxLen == 3
MaxConcatLen == 2
MaxVal == 3
MaxChunk == 3
MaxPasses == 2
MaxConcatVal == 2
SizeBits == 4
IntBits == 3

Values == 1 .. MaxVal

SeqsUpTo(n) == UNION {[1 .. k -> Values] : k \in 0 .. n}

\* The operands of Concat.
ConcatSeqs == UNION {[1 .. k -> 1 .. MaxConcatVal] : k \in 0 .. MaxConcatLen}

Kinds == {"append", "chunk", "concat", "ordered", "terminal"}

Min(a, b) == IF a <= b THEN a ELSE b

Max(a, b) == IF a >= b THEN a ELSE b

VARIABLES
    kind,          \* which adaptor the client applies
    range,         \* the source range (left operand of |)
    otherRange,    \* the range given to Concat
    adaptor,       \* the adaptor's captured parameters
    bidirectional, \* whether the source range models bidirectional_range
    pc,            \* the client's position
    value,         \* AppendView::_value
    size,          \* ChunkView::_size
    comparer,      \* OrderedView::_comparer
    projection,    \* OrderedView::_projection
    sorted,        \* OrderedView::_sorted
    sortedRange,   \* OrderedView::_sortedRange
    appendIt,      \* the client's AppendIterator
    chunkIt,       \* the client's ChunkIterator
    concatIt,      \* the client's ConcatIterator
    orderedIt,     \* the client's iterator into _sortedRange
    out,           \* what the client's loop has collected
    thrown,        \* the exception that reached the client, or NoThrow
    reads,         \* number of source elements read so far
    drains,        \* number of times the source was copied into _sortedRange
    sorts,         \* number of times std::ranges::sort ran
    calls,         \* number of begin()/end() calls on the OrderedView
    passes,        \* number of traversals the client has started
    result,        \* what a terminal adaptor returned
    start,         \* the first argument of Range
    count,         \* the second argument of Range
    rangeIt        \* the client's iterator of the view Range returned

vars == <<kind, range, otherRange, adaptor, bidirectional, pc, value, size,
          comparer, projection, sorted, sortedRange, appendIt, chunkIt,
          concatIt, orderedIt, out, thrown, reads, drains, sorts, calls,
          passes, result, start, count, rangeIt>>

viewVars == <<value, size, comparer, projection, sorted, sortedRange>>

itVars == <<appendIt, chunkIt, concatIt, orderedIt, rangeIt>>

inputVars == <<kind, range, otherRange, adaptor, bidirectional, start, count>>

countVars == <<drains, sorts, calls>>

----------------------------------------------------------------------------
\* Exceptions and outcomes of an operation.

NoThrow == [type |-> "none", what |-> ""]

OutOfRange(what) == [type |-> "std::out_of_range", what |-> what]

InvalidArgument(what) == [type |-> "std::invalid_argument", what |-> what]

RuntimeError(what) == [type |-> "std::runtime_error", what |-> what]

\* Undefined behaviour that ends the program.
Crash == [type |-> "crash", what |-> "undefined behaviour"]

Returned(v) == [thrown |-> NoThrow, val |-> v]

Threw(e) == [thrown |-> e, val |-> 0]

\* Undefined behaviour when a value is expected: any value, or a crash.
UndefinedValue == {Returned(v) : v \in Values} \cup {Threw(Crash)}

\* *it for an iterator of the source at offset i.
DerefSource(rng, i) ==
    IF i \in 0 .. Len(rng) - 1 THEN {Returned(rng[i + 1])} ELSE UndefinedValue

----------------------------------------------------------------------------
\* AppendView

AppendPosition == {"InRange", "InAppend", "InEnd"}

\* AppendIterator(): value-initialised members.
DefaultAppendIterator == [it |-> 0, position |-> "InRange"]

AppendIterator(it, position) == [it |-> it, position |-> position]

\* begin() that starts InRange on an empty source too.
AppendViewBeginInRange(rng) == AppendIterator(0, "InRange")

\* AppendView::begin()
AppendViewBegin(rng) ==
    IF 0 # Len(rng)
    THEN AppendIterator(0, "InRange")
    ELSE AppendIterator(0, "InAppend")

\* end() that holds the source's begin().
AppendViewEndAtBegin(rng) == AppendIterator(0, "InEnd")

\* AppendView::end()
AppendViewEnd(rng) == AppendIterator(Len(rng), "InEnd")

\* operator== that compares the source iterators only.
AppendIteratorEqIt(a, b) == a.it = b.it

\* AppendIterator::operator==
AppendIteratorEq(a, b) == a.it = b.it /\ a.position = b.position

\* operator* that hands out the appended value at InEnd too.
AppendIteratorDerefNoThrow(a, rng, val) ==
    CASE a.position = "InRange" -> DerefSource(rng, a.it)
      [] a.position = "InAppend" -> {Returned(val)}
      [] a.position = "InEnd" -> {Returned(val)}

\* AppendIterator::operator*: the set of possible outcomes.
AppendIteratorDeref(a, rng, val) ==
    CASE a.position = "InRange" -> DerefSource(rng, a.it)
      [] a.position = "InAppend" -> {Returned(val)}
      [] a.position = "InEnd" -> {Threw(OutOfRange("Cannot get value at end"))}

\* Undefined behaviour when an AppendIterator is expected.
UndefinedAppendIterator(rng) ==
    {Returned(AppendIterator(i, p)) : i \in 0 .. Len(rng), p \in AppendPosition}
        \cup {Threw(Crash)}

\* operator++ that leaves InRange for InEnd, skipping the appended value.
AppendIteratorIncSkipsAppend(a, rng) ==
    CASE a.position = "InRange" ->
            IF a.it >= Len(rng)
            THEN UndefinedAppendIterator(rng)
            ELSE IF a.it + 1 = Len(rng)
                 THEN {Returned(AppendIterator(a.it + 1, "InEnd"))}
                 ELSE {Returned(AppendIterator(a.it + 1, "InRange"))}
      [] a.position = "InAppend" -> {Returned(AppendIterator(a.it, "InEnd"))}
      [] a.position = "InEnd" ->
            {Threw(OutOfRange("Cannot iterate out of end"))}

\* AppendIterator::operator++: the set of possible outcomes.
AppendIteratorInc(a, rng) ==
    CASE a.position = "InRange" ->
            IF a.it >= Len(rng)
            THEN UndefinedAppendIterator(rng)
            ELSE IF a.it + 1 = Len(rng)
                 THEN {Returned(AppendIterator(a.it + 1, "InAppend"))}
                 ELSE {Returned(AppendIterator(a.it + 1, "InRange"))}
      [] a.position = "InAppend" -> {Returned(AppendIterator(a.it, "InEnd"))}
      [] a.position = "InEnd" ->
            {Threw(OutOfRange("Cannot iterate out of end"))}

\* operator-- that leaves InAppend without moving the source iterator.
AppendIteratorDecKeepsIt(a, rng) ==
    CASE a.position = "InRange" ->
            IF a.it = 0
            THEN UndefinedAppendIterator(rng)
            ELSE {Returned(AppendIterator(a.it - 1, "InRange"))}
      [] a.position = "InAppend" -> {Returned(AppendIterator(a.it, "InRange"))}
      [] a.position = "InEnd" -> {Returned(AppendIterator(a.it, "InAppend"))}

\* AppendIterator::operator--: the set of possible outcomes.  Decrementing
\* the source's begin() is undefined.
AppendIteratorDec(a, rng) ==
    CASE a.position = "InRange" ->
            IF a.it = 0
            THEN UndefinedAppendIterator(rng)
            ELSE {Returned(AppendIterator(a.it - 1, "InRange"))}
      [] a.position = "InAppend" ->
            IF a.it = 0
            THEN UndefinedAppendIterator(rng)
            ELSE {Returned(AppendIterator(a.it - 1, "InRange"))}
      [] a.position = "InEnd" -> {Returned(AppendIterator(a.it, "InAppend"))}

----------------------------------------------------------------------------
\* ChunkView

\* std::ranges::advance(it, n, bound) on an iterator at offset i.
RangesAdvance(i, n, bound) ==
    IF n >= 0 THEN Min(i + n, bound) ELSE Max(i + n, bound)

\* A constructor that does not check the size.
ChunkViewCtorUnchecked(sz) == Returned(sz)

\* ChunkView::ChunkView: the _size the view gets, or the exception.
ChunkViewCtor(sz) ==
    IF sz = 0
    THEN Threw(InvalidArgument("Size cannot be 0"))
    ELSE Returned(sz)

\* ChunkIterator(): value-initialised members.
DefaultChunkIterator == [from |-> 0, to |-> 0]

\* A constructor that leaves _to at from.
ChunkIteratorNoAdvance(from, sz, rng) == [from |-> from, to |-> from]

\* ChunkIterator::ChunkIterator(parent, from)
ChunkIterator(from, sz, rng) ==
    [from |-> from, to |-> RangesAdvance(from, sz, Len(rng))]

\* ChunkView::begin()
ChunkViewBegin(sz, rng) == ChunkIterator(0, sz, rng)

\* ChunkView::end()
ChunkViewEnd(sz, rng) == ChunkIterator(Len(rng), sz, rng)

\* ChunkIterator::operator*: the subrange [from, to).
ChunkIteratorDeref(c) == [from |-> c.from, to |-> c.to]

\* operator++ that advances _to before copying it to _from.
ChunkIteratorIncSwapped(c, sz, rng) ==
    [from |-> RangesAdvance(c.to, sz, Len(rng)),
     to |-> RangesAdvance(c.to, sz, Len(rng))]

\* ChunkIterator::operator++
ChunkIteratorInc(c, sz, rng) ==
    [from |-> c.to, to |-> RangesAdvance(c.to, sz, Len(rng))]

\* operator-- that moves _from back and leaves _to where it was.
ChunkIteratorDecKeepsTo(c, sz, rng) ==
    [from |-> RangesAdvance(c.from, -sz, 0), to |-> c.to]

\* ChunkIterator::operator--
ChunkIteratorDec(c, sz, rng) ==
    [from |-> RangesAdvance(c.from, -sz, 0), to |-> c.from]

\* operator== that compares _to.
ChunkIteratorEqTo(a, b) == a.to = b.to

\* ChunkIterator::operator==
ChunkIteratorEq(a, b) == a.from = b.from

\* The elements of a subrange of the source, as the client reads them.
SubrangeElements(rng, sub) == SubSeq(rng, sub.from + 1, sub.to)

\* size_t holds 0 .. SizeModulus - 1 and its arithmetic wraps.
SizeModulus == 2 ^ SizeBits

\* The conversion of the size_t given to Chunk to ChunkView's signed TSize.
ToTSize(n) == IF n >= SizeModulus \div 2 THEN n - SizeModulus ELSE n

\* The conversion of a TSize operand to size_t when it meets a size_t in an
\* arithmetic expression.
ToSizeT(d) == d % SizeModulus

\* ChunkView::size(): n is the size_t std::ranges::size(_view), so
\* (n + _size - 1) / _size is computed in size_t.
ChunkViewSize(sz, rng) ==
    LET n == Len(rng)
    IN  ((n + ToSizeT(sz) - 1) % SizeModulus) \div ToSizeT(sz)

----------------------------------------------------------------------------
\* ConcatView

\* ConcatIterator(): value-initialised members.
DefaultConcatIterator == [isInSecond |-> FALSE, firstIt |-> 0, secondIt |-> 0]

\* A constructor that does not look whether the first range is empty.
ConcatIteratorNoEmptyCheck(isEnd, first, second) ==
    IF isEnd
    THEN [isInSecond |-> TRUE, firstIt |-> Len(first), secondIt |-> Len(second)]
    ELSE [isInSecond |-> FALSE, firstIt |-> 0, secondIt |-> 0]

\* ConcatIterator::ConcatIterator(parent, isEnd)
ConcatIterator(isEnd, first, second) ==
    IF isEnd
    THEN [isInSecond |-> TRUE, firstIt |-> Len(first), secondIt |-> Len(second)]
    ELSE [isInSecond |-> (0 = Len(first)), firstIt |-> 0, secondIt |-> 0]

\* ConcatView::begin()
ConcatViewBegin(first, second) == ConcatIterator(FALSE, first, second)

\* ConcatView::end()
ConcatViewEnd(first, second) == ConcatIterator(TRUE, first, second)

\* ConcatView::size() that reports the first range only.
ConcatViewSizeFirstOnly(first, second) == Len(first) % SizeModulus

\* ConcatView::size(): the sum of the two std::ranges::size results.
ConcatViewSize(first, second) == (Len(first) + Len(second)) % SizeModulus

\* ConcatIterator::operator*: the set of possible outcomes.
ConcatIteratorDeref(c, first, second) ==
    IF c.isInSecond
    THEN DerefSource(second, c.secondIt)
    ELSE DerefSource(first, c.firstIt)

\* Undefined behaviour when a ConcatIterator is expected.
UndefinedConcatIterator(first, second) ==
    {Returned([isInSecond |-> b, firstIt |-> i, secondIt |-> j]) :
        b \in BOOLEAN, i \in 0 .. Len(first), j \in 0 .. Len(second)}
        \cup {Threw(Crash)}

\* operator++ that never leaves the first range.
ConcatIteratorIncNoFlip(c, first, second) ==
    IF c.isInSecond
    THEN IF c.secondIt >= Len(second)
         THEN UndefinedConcatIterator(first, second)
         ELSE {Returned([c EXCEPT !.secondIt = c.secondIt + 1])}
    ELSE IF c.firstIt >= Len(first)
         THEN UndefinedConcatIterator(first, second)
         ELSE {Returned([c EXCEPT !.firstIt = c.firstIt + 1])}

\* operator++ that tests for the first range's end before it increments.
ConcatIteratorIncLateFlip(c, first, second) ==
    IF c.isInSecond
    THEN IF c.secondIt >= Len(second)
         THEN UndefinedConcatIterator(first, second)
         ELSE {Returned([c EXCEPT !.secondIt = c.secondIt + 1])}
    ELSE IF c.firstIt = Len(first)
         THEN {Returned([isInSecond |-> TRUE, firstIt |-> c.firstIt,
                         secondIt |-> 0])}
         ELSE {Returned([c EXCEPT !.firstIt = c.firstIt + 1])}

\* ConcatIterator::operator++: the set of possible outcomes.
ConcatIteratorInc(c, first, second) ==
    IF c.isInSecond
    THEN IF c.secondIt >= Len(second)
         THEN UndefinedConcatIterator(first, second)
         ELSE {Returned([c EXCEPT !.secondIt = c.secondIt + 1])}
    ELSE IF c.firstIt >= Len(first)
         THEN UndefinedConcatIterator(first, second)
         ELSE IF c.firstIt + 1 = Len(first)
              THEN {Returned([isInSecond |-> TRUE, firstIt |-> c.firstIt + 1,
                              secondIt |-> 0])}
              ELSE {Returned([c EXCEPT !.firstIt = c.firstIt + 1])}

\* operator-- that enters the first range at its end().
ConcatIteratorDecToEnd(c, first, second) ==
    IF c.isInSecond
    THEN IF c.secondIt = 0
         THEN {Returned([c EXCEPT !.isInSecond = FALSE, !.firstIt = Len(first)])}
         ELSE {Returned([c EXCEPT !.secondIt = @ - 1])}
    ELSE IF c.firstIt = 0
         THEN UndefinedConcatIterator(first, second)
         ELSE {Returned([c EXCEPT !.firstIt = @ - 1])}

\* operator-- that steps into the first range without clearing the flag.
ConcatIteratorDecKeepsFlag(c, first, second) ==
    IF c.isInSecond
    THEN IF c.secondIt = 0
         THEN IF Len(first) = 0
              THEN UndefinedConcatIterator(first, second)
              ELSE {Returned([c EXCEPT !.firstIt = Len(first) - 1])}
         ELSE {Returned([c EXCEPT !.secondIt = @ - 1])}
    ELSE IF c.firstIt = 0
         THEN UndefinedConcatIterator(first, second)
         ELSE {Returned([c EXCEPT !.firstIt = @ - 1])}

\* ConcatIterator::operator--: the set of possible outcomes.  Decrementing
\* the first range's begin() (its end() when it is empty) is undefined.
ConcatIteratorDec(c, first, second) ==
    IF c.isInSecond
    THEN IF c.secondIt = 0
         THEN IF Len(first) = 0
              THEN UndefinedConcatIterator(first, second)
              ELSE {Returned([c EXCEPT !.isInSecond = FALSE,
                                       !.firstIt = Len(first) - 1])}
         ELSE {Returned([c EXCEPT !.secondIt = @ - 1])}
    ELSE IF c.firstIt = 0
         THEN UndefinedConcatIterator(first, second)
         ELSE {Returned([c EXCEPT !.firstIt = @ - 1])}

\* operator== that compares every member.
ConcatIteratorEqAll(a, b) ==
    /\ a.isInSecond = b.isInSecond
    /\ a.secondIt = b.secondIt
    /\ a.firstIt = b.firstIt

\* ConcatIterator::operator==
ConcatIteratorEq(a, b) ==
    /\ a.isInSecond = b.isInSecond
    /\ IF a.isInSecond THEN a.secondIt = b.secondIt ELSE a.firstIt = b.firstIt

----------------------------------------------------------------------------
\* OrderedView

\* std::less and std::greater, as Order/OrderBy and OrderDescending/
\* OrderByDescending instantiate OrderAdaptor.
Comparers == {"less", "greater"}

\* std::identity (the default) and a caller's projection: one that is not
\* monotone and gives distinct elements equal keys.
Projections == {"identity", "mod2"}

Compare(c, a, b) == IF c = "less" THEN a < b ELSE a > b

Project(p, x) == IF p = "mod2" THEN x % 2 ELSE x

\* A caller's projection that fails on one element: the identity, except
\* that it throws when it is given 1.
Throws(p, x) == p = "throwing" /\ x = 1

ProjectionFailed == RuntimeError("Projection failed")

\* std::ranges::sort invokes the projection on every element of a range of
\* two or more elements.
SortThrows(s, p) == Len(s) >= 2 /\ \E i \in 1 .. Len(s) : Throws(p, s[i])

\* What a sort that was left by an exception may leave in the range it was
\* sorting: the elements are in a valid but unspecified state.
InterruptedSort(s) == [1 .. Len(s) -> {s[i] : i \in 1 .. Len(s)}]

\* No element is ordered before its predecessor: what std::ranges::sort
\* guarantees of its result.
IsSortedBy(s, c, p) ==
    \A i \in 1 .. Len(s) - 1 : ~Compare(c, Project(p, s[i + 1]), Project(p, s[i]))

\* std::ranges::sort(s, c, p): not stable, so any sorted rearrangement.
RangesSort(s, c, p) ==
    {t \in {[i \in 1 .. Len(s) |-> s[f[i]]] : f \in Permutations(1 .. Len(s))} :
        IsSortedBy(t, c, p)}

\* A constructor that drains and sorts the source at once.
OrderedViewCtorEager(rng, c, p) ==
    {[sorted |-> TRUE, sortedRange |-> t, drained |-> 1, sortRuns |-> 1] :
        t \in RangesSort(rng, c, p)}

\* OrderedView::OrderedView: the members after construction.
OrderedViewCtor(rng, c, p) ==
    {[sorted |-> FALSE, sortedRange |-> <<>>, drained |-> 0, sortRuns |-> 0]}

\* What EnsureSorted leaves when it finds _sorted set.
AlreadySorted(isSorted, buffer, rng) ==
    [sorted |-> isSorted, sortedRange |-> buffer, view |-> rng, drained |-> 0,
     sortRuns |-> 0, thrown |-> NoThrow]

\* What EnsureSorted leaves when its sort returned t.
Materialized(t, rng) ==
    [sorted |-> TRUE, sortedRange |-> t, view |-> rng, drained |-> 1,
     sortRuns |-> 1, thrown |-> NoThrow]

\* EnsureSorted that sorts the elements themselves, not their projections.
EnsureSortedNoProjection(isSorted, buffer, rng, c, p) ==
    IF ~isSorted
    THEN {Materialized(t, rng) : t \in RangesSort(rng, c, "identity")}
    ELSE {AlreadySorted(isSorted, buffer, rng)}

\* EnsureSorted that never sets _sorted.
EnsureSortedNoFlag(isSorted, buffer, rng, c, p) ==
    {[Materialized(t, rng) EXCEPT !.sorted = FALSE] : t \in RangesSort(rng, c, p)}

\* EnsureSorted that sorts _view in place before copying it.
EnsureSortedInPlace(isSorted, buffer, rng, c, p) ==
    IF ~isSorted
    THEN {Materialized(t, t) : t \in RangesSort(rng, c, p)}
    ELSE {AlreadySorted(isSorted, buffer, rng)}

\* EnsureSorted that copies and sorts _view again when it has changed.
EnsureSortedRefreshes(isSorted, buffer, rng, c, p) ==
    IF ~isSorted \/ \E v \in Values :
                        Cardinality({i \in 1 .. Len(rng) : rng[i] = v})
                            # Cardinality({i \in 1 .. Len(buffer) : buffer[i] = v})
    THEN {Materialized(t, rng) : t \in RangesSort(rng, c, p)}
    ELSE {AlreadySorted(isSorted, buffer, rng)}

\* OrderedView::EnsureSorted: the possible members after the call (view is
\* the source _view refers to), with the number of drains of the source and
\* of sort runs the call made, and the exception that left it.  _sorted is
\* set before the source is copied and sorted, so it stays set when the
\* sort is left by an exception.
EnsureSorted(isSorted, buffer, rng, c, p) ==
    IF ~isSorted
    THEN IF SortThrows(rng, p)
         THEN {[Materialized(t, rng) EXCEPT !.thrown = ProjectionFailed] :
                  t \in InterruptedSort(rng)}
         ELSE {Materialized(t, rng) : t \in RangesSort(rng, c, p)}
    ELSE {AlreadySorted(isSorted, buffer, rng)}

----------------------------------------------------------------------------
\* Terminal adaptors.  A result is [thrown, has, val]: the exception, or
\* whether a value (an engaged optional) was returned, and the value.

ReturnedValue(v) == [thrown |-> NoThrow, has |-> TRUE, val |-> v]

Nullopt == [thrown |-> NoThrow, has |-> FALSE, val |-> 0]

Failed(e) == [thrown |-> e, has |-> FALSE, val |-> 0]

\* The results of returning what *it gave (or of its undefined behaviour).
ValueOf(outcomes) ==
    {IF o.thrown = NoThrow THEN ReturnedValue(o.val) ELSE Failed(o.thrown) : o \in outcomes}

\* The loop "for(; it != end; ++it) last = it" of LastAdaptor and
\* LastOrDefaultAdaptor: the offset last ends at.
RECURSIVE ScanLast(_, _, _)
ScanLast(rng, it, last) ==
    IF it # Len(rng) THEN ScanLast(rng, it + 1, it) ELSE last

\* FirstAdaptor::operator()
FirstAdaptor(rng) ==
    IF 0 = Len(rng)
    THEN {Failed(RuntimeError("Range is empty"))}
    ELSE ValueOf(DerefSource(rng, 0))

\* FirstOrDefaultAdaptor with the body of FirstAdaptor.
FirstOrDefaultAdaptorThrows(rng) ==
    IF 0 = Len(rng)
    THEN {Failed(RuntimeError("Range is empty"))}
    ELSE ValueOf(DerefSource(rng, 0))

\* FirstOrDefaultAdaptor::operator()
FirstOrDefaultAdaptor(rng) ==
    IF 0 = Len(rng)
    THEN {Nullopt}
    ELSE ValueOf(DerefSource(rng, 0))

\* LastAdaptor::operator()
LastAdaptor(rng, bidir) ==
    IF 0 = Len(rng)
    THEN {Failed(RuntimeError("Range is empty"))}
    ELSE IF bidir
         THEN ValueOf(DerefSource(rng, Len(rng) - 1))
         ELSE ValueOf(DerefSource(rng, ScanLast(rng, 0, 0)))

\* LastOrDefaultAdaptor::operator()
LastOrDefaultAdaptor(rng, bidir) ==
    IF 0 = Len(rng)
    THEN {Nullopt}
    ELSE IF bidir
         THEN ValueOf(DerefSource(rng, Len(rng) - 1))
         ELSE ValueOf(DerefSource(rng, ScanLast(rng, 0, 0)))

\* The predicates a client passes: "odd" is [](int x) { return x % 2 == 1; },
\* "big" is [](int x) { return x >= MaxVal; }.
Predicates == {"odd", "big"}

Predicate(p, item) == IF p = "odd" THEN item % 2 = 1 ELSE item >= MaxVal

\* The loop "for(const auto& item : range) if(Predicate(item)) return" of
\* FirstAdaptor2, FirstOrDefaultAdaptor2 and AnyAdaptor: the offset at which
\* it returns, or Len(rng) when it runs to the end.
RECURSIVE FindFirst(_, _, _)
FindFirst(rng, p, it) ==
    IF it = Len(rng) THEN it
    ELSE IF Predicate(p, rng[it + 1]) THEN it
    ELSE FindFirst(rng, p, it + 1)

\* The loop over rbegin(range) .. rend(range) of LastAdaptor2 and
\* LastOrDefaultAdaptor2.  A reverse iterator with base offset b reads the
\* element at offset b - 1; rend has base 0.  Gives the base at which the
\* loop returns, or 0 when it runs to rend.
RECURSIVE FindLastReverse(_, _, _)
FindLastReverse(rng, p, base) ==
    IF base = 0 THEN base
    ELSE IF Predicate(p, rng[base]) THEN base
    ELSE FindLastReverse(rng, p, base - 1)

\* The forward loop of LastAdaptor2 and LastOrDefaultAdaptor2 that keeps the
\* last match in "found": <<>> is the empty optional, <<v>> holds v.
RECURSIVE FindLastForward(_, _, _, _)
FindLastForward(rng, p, it, found) ==
    IF it = Len(rng) THEN found
    ELSE FindLastForward(rng, p, it + 1,
                         IF Predicate(p, rng[it + 1]) THEN <<rng[it + 1]>>
                         ELSE found)

\* FirstAdaptor2::operator()
FirstAdaptor2(rng, p) ==
    LET it == FindFirst(rng, p, 0)
    IN  IF it # Len(rng)
        THEN {ReturnedValue(rng[it + 1])}
        ELSE {Failed(RuntimeError("Item not found"))}

\* FirstOrDefaultAdaptor2::operator()
FirstOrDefaultAdaptor2(rng, p) ==
    LET it == FindFirst(rng, p, 0)
    IN  IF it # Len(rng) THEN {ReturnedValue(rng[it + 1])} ELSE {Nullopt}

\* LastAdaptor2 whose forward loop returns at the first match.
LastAdaptor2FirstMatch(rng, p, bidir) ==
    IF bidir
    THEN LET base == FindLastReverse(rng, p, Len(rng))
         IN  IF base # 0
             THEN {ReturnedValue(rng[base])}
             ELSE {Failed(RuntimeError("Item not found"))}
    ELSE LET it == FindFirst(rng, p, 0)
         IN  IF it # Len(rng)
             THEN {ReturnedValue(rng[it + 1])}
             ELSE {Failed(RuntimeError("Item not found"))}

\* LastAdaptor2::operator()
LastAdaptor2(rng, p, bidir) ==
    IF bidir
    THEN LET base == FindLastReverse(rng, p, Len(rng))
         IN  IF base # 0
             THEN {ReturnedValue(rng[base])}
             ELSE {Failed(RuntimeError("Item not found"))}
    ELSE LET found == FindLastForward(rng, p, 0, <<>>)
         IN  IF found # <<>>
             THEN {ReturnedValue(found[1])}
             ELSE {Failed(RuntimeError("Item not found"))}

\* LastOrDefaultAdaptor2 whose forward loop keeps the first match.
LastOrDefaultAdaptor2FirstMatch(rng, p, bidir) ==
    IF bidir
    THEN LET base == FindLastReverse(rng, p, Len(rng))
         IN  IF base # 0 THEN {ReturnedValue(rng[base])} ELSE {Nullopt}
    ELSE LET it == FindFirst(rng, p, 0)
         IN  IF it # Len(rng) THEN {ReturnedValue(rng[it + 1])} ELSE {Nullopt}

\* LastOrDefaultAdaptor2::operator()
LastOrDefaultAdaptor2(rng, p, bidir) ==
    IF bidir
    THEN LET base == FindLastReverse(rng, p, Len(rng))
         IN  IF base # 0 THEN {ReturnedValue(rng[base])} ELSE {Nullopt}
    ELSE LET found == FindLastForward(rng, p, 0, <<>>)
         IN  IF found # <<>> THEN {ReturnedValue(found[1])} ELSE {Nullopt}

\* ElementAtAdaptor that dereferences without comparing with end().
ElementAtAdaptorUnchecked(rng, position) ==
    ValueOf(DerefSource(rng, RangesAdvance(0, position, Len(rng))))

\* ElementAtAdaptor::operator().  Position stays below PTRDIFF_MAX, so its
\* conversion to the difference type of std::ranges::advance keeps its value.
ElementAtAdaptor(rng, position) ==
    LET it == RangesAdvance(0, position, Len(rng))
    IN  IF it = Len(rng)
        THEN {Failed(OutOfRange("Position is out of range"))}
        ELSE ValueOf(DerefSource(rng, it))

\* ElementAtOrDefaultAdaptor::operator()
ElementAtOrDefaultAdaptor(rng, position) ==
    LET it == RangesAdvance(0, position, Len(rng))
    IN  IF it = Len(rng) THEN {Nullopt} ELSE ValueOf(DerefSource(rng, it))

\* The scan of std::ranges::max over a non-empty range: result starts at the
\* first element and moves to a later one whose key is strictly greater.
RECURSIVE ScanMax(_, _, _, _)
ScanMax(rng, p, it, res) ==
    IF it = Len(rng) THEN res
    ELSE ScanMax(rng, p, it + 1,
                 IF Project(p, res) < Project(p, rng[it + 1]) THEN rng[it + 1]
                 ELSE res)

\* The scan of std::ranges::min over a non-empty range.
RECURSIVE ScanMin(_, _, _, _)
ScanMin(rng, p, it, res) ==
    IF it = Len(rng) THEN res
    ELSE ScanMin(rng, p, it + 1,
                 IF Project(p, rng[it + 1]) < Project(p, res) THEN rng[it + 1]
                 ELSE res)

\* MaxAdaptor::operator().  std::ranges::max requires a non-empty range; on
\* an empty one its behaviour is undefined.
MaxAdaptor(rng, p) ==
    IF Len(rng) = 0
    THEN ValueOf(UndefinedValue)
    ELSE {ReturnedValue(ScanMax(rng, p, 1, rng[1]))}

\* MinAdaptor::operator(), with the same precondition.
MinAdaptor(rng, p) ==
    IF Len(rng) = 0
    THEN ValueOf(UndefinedValue)
    ELSE {ReturnedValue(ScanMin(rng, p, 1, rng[1]))}

\* std::unordered_map::emplace: nothing is inserted when the key is present.
\* A map is a function from its keys to their elements.
Emplace(map, key, element) ==
    IF key \in DOMAIN map
    THEN map
    ELSE [k \in DOMAIN map \cup {key} |-> IF k = key THEN element ELSE map[k]]

\* The loop of ToUnorderedMapAdaptor::operator().
RECURSIVE EmplaceAll(_, _, _, _, _)
EmplaceAll(rng, ks, es, it, map) ==
    IF it = Len(rng) THEN map
    ELSE EmplaceAll(rng, ks, es, it + 1,
                    Emplace(map, Project(ks, rng[it + 1]),
                            Project(es, rng[it + 1])))

\* ToUnorderedMapAdaptor::operator()
ToUnorderedMapAdaptor(rng, ks, es) ==
    {ReturnedValue(EmplaceAll(rng, ks, es, 0, <<>>))}

\* The selector given to ToUnorderedMap(selector): the pair of the
\* element's key and the element.
Selector(s, item) == <<Project(s, item), item>>

\* std::unordered_map(first, last) over the transformed range: inserts each
\* pair in order, a pair whose key is present is not inserted.
RECURSIVE InsertAll(_, _, _, _)
InsertAll(rng, s, it, map) ==
    IF it = Len(rng) THEN map
    ELSE InsertAll(rng, s, it + 1,
                   Emplace(map, Selector(s, rng[it + 1])[1],
                           Selector(s, rng[it + 1])[2]))

\* ToUnorderedMapAdaptor2::operator()
ToUnorderedMapAdaptor2(rng, s) == {ReturnedValue(InsertAll(rng, s, 0, <<>>))}

\* The function a client gives to Aggregate: std::plus.
Function(acc, item) == acc + item

\* The loop of AggregateAdaptor and AgregateAdaptor2.
RECURSIVE Fold(_, _, _)
Fold(rng, it, res) ==
    IF it = Len(rng) THEN res ELSE Fold(rng, it + 1, Function(res, rng[it + 1]))

\* AggregateAdaptor::operator(): result starts value-initialized.
AggregateAdaptor(rng) == {ReturnedValue(Fold(rng, 0, 0))}

\* AgregateAdaptor2::operator()
AgregateAdaptor2(rng, seed) == {ReturnedValue(Fold(rng, 0, seed))}

\* The loop of AllAdaptor: the offset of the first item failing Predicate.
RECURSIVE FindFirstNot(_, _, _)
FindFirstNot(rng, p, it) ==
    IF it = Len(rng) THEN it
    ELSE IF ~Predicate(p, rng[it + 1]) THEN it
    ELSE FindFirstNot(rng, p, it + 1)

\* AllAdaptor::operator()
AllAdaptor(rng, p) == {ReturnedValue(FindFirstNot(rng, p, 0) = Len(rng))}

\* AnyAdaptor::operator()
AnyAdaptor(rng, p) == {ReturnedValue(FindFirst(rng, p, 0) # Len(rng))}

\* The loop of ContainsAdaptor: the offset of the first item equal to v.
RECURSIVE FindValue(_, _, _)
FindValue(rng, v, it) ==
    IF it = Len(rng) THEN it
    ELSE IF rng[it + 1] = v THEN it
    ELSE FindValue(rng, v, it + 1)

\* ContainsAdaptor::operator()
ContainsAdaptor(rng, v) == {ReturnedValue(FindValue(rng, v, 0) # Len(rng))}

\* CountAdaptor::operator(): std::ranges::distance(range).
CountAdaptor(rng) == {ReturnedValue(Len(rng))}

\* AverageAdaptor::operator(): the double sum / distance(range), kept as the
\* pair <<sum, distance>>; 0.0 / 0 is the double NaN.
RECURSIVE Sum(_, _, _)
Sum(rng, it, sum) ==
    IF it = Len(rng) THEN sum ELSE Sum(rng, it + 1, sum + rng[it + 1])

AverageAdaptor(rng) ==
    IF Len(rng) = 0 THEN {ReturnedValue("NaN")}
    ELSE {ReturnedValue(<<Sum(rng, 0, 0), Len(rng)>>)}

\* ToAdaptor::operator(): TContainer(begin(range), end(range)) copies the
\* elements in order.
ToAdaptor(rng) == {ReturnedValue([i \in 1 .. Len(rng) |-> rng[i]])}

----------------------------------------------------------------------------
\* The client.

\* The terminal adaptors, named after their structs in RangeAdaptors.h.
TerminalOps ==
    {"First", "FirstOrDefault", "Last", "LastOrDefault", "First2",
     "FirstOrDefault2", "Last2", "LastOrDefault2", "ElementAt",
     "ElementAtOrDefault", "Max", "Min", "ToUnorderedMap", "ToUnorderedMap2",
     "Aggregate", "Agregate2", "All", "Any", "Contains", "Count", "Average",
     "To"}

\* The adaptors whose code asks whether the range is bidirectional.
LastOps == {"Last", "LastOrDefault", "Last2", "LastOrDefault2"}

DefaultAdaptor == [Op |-> "none", Value |-> 0, Size |-> 0, Comparer |-> "less",
                   Projection |-> "identity", Predicate |-> "odd",
                   Position |-> 0, KeySelector |-> "identity",
                   ElementSelector |-> "identity", Seed |-> 0]

\* The terminal adaptors with the parameters their constructors capture.
TerminalAdaptors ==
    {[DefaultAdaptor EXCEPT !.Op = o] :
        o \in {"First", "FirstOrDefault", "Last", "LastOrDefault", "Aggregate",
               "Count", "Average", "To"}}
    \cup {[DefaultAdaptor EXCEPT !.Op = o, !.Predicate = p] :
            o \in {"First2", "FirstOrDefault2", "Last2", "LastOrDefault2",
                   "All", "Any"},
            p \in Predicates}
    \cup {[DefaultAdaptor EXCEPT !.Op = o, !.Position = n] :
            o \in {"ElementAt", "ElementAtOrDefault"}, n \in 0 .. MaxLen + 1}
    \cup {[DefaultAdaptor EXCEPT !.Op = o, !.Projection = p] :
            o \in {"Max", "Min"}, p \in Projections}
    \cup {[DefaultAdaptor EXCEPT !.Op = "ToUnorderedMap", !.KeySelector = k,
                                 !.ElementSelector = e] :
            k \in Projections, e \in Projections}
    \cup {[DefaultAdaptor EXCEPT !.Op = "ToUnorderedMap2", !.KeySelector = k] :
            k \in Projections}
    \cup {[DefaultAdaptor EXCEPT !.Op = "Agregate2", !.Seed = 1]}
    \cup {[DefaultAdaptor EXCEPT !.Op = "Contains", !.Value = v] : v \in Values}

\* The adaptors the factory functions of Ranges.h build for each kind.
Adaptors(k) ==
    CASE k = "append" -> {[DefaultAdaptor EXCEPT !.Value = v] : v \in Values}
      [] k = "chunk" -> {[DefaultAdaptor EXCEPT !.Size = n] : n \in 0 .. MaxChunk}
      [] k = "concat" -> {DefaultAdaptor}
      [] k = "ordered" ->
            {[DefaultAdaptor EXCEPT !.Comparer = c, !.Projection = p] :
                c \in Comparers, p \in Projections}
      [] k = "terminal" -> TerminalAdaptors

NoResult == [thrown |-> NoThrow, has |-> FALSE, val |-> 0]

Init ==
    /\ kind \in Kinds
    /\ range \in (IF kind = "concat" THEN ConcatSeqs
                  ELSE SeqsUpTo(MaxLen))
    /\ otherRange \in (IF kind = "concat" THEN ConcatSeqs ELSE {<<>>})
    /\ adaptor \in Adaptors(kind)
    /\ bidirectional \in (IF adaptor.Op \in LastOps THEN BOOLEAN ELSE {TRUE})
    /\ start = 0
    /\ count = 0
    /\ pc = "start"
    /\ value = 0
    /\ size = 1
    /\ comparer = "less"
    /\ projection = "identity"
    /\ sorted = FALSE
    /\ sortedRange = <<>>
    /\ appendIt = DefaultAppendIterator
    /\ chunkIt = DefaultChunkIterator
    /\ concatIt = DefaultConcatIterator
    /\ orderedIt = 0
    /\ out = <<>>
    /\ thrown = NoThrow
    /\ reads = 0
    /\ drains = 0
    /\ sorts = 0
    /\ calls = 0
    /\ passes = 0
    /\ result = NoResult
    /\ rangeIt = 0

\* range | Append(value): AppendAdaptor::operator() builds the AppendView.
AppendConstruct ==
    /\ kind = "append"
    /\ pc = "start"
    /\ value' = adaptor.Value
    /\ pc' = "built"
    /\ UNCHANGED <<inputVars, size, comparer, projection, sorted, sortedRange,
                   itVars, out, thrown, reads, countVars, passes, result>>

\* it = view.begin()
AppendBegin ==
    /\ kind = "append"
    /\ pc = "built"
    /\ appendIt' = AppendViewBegin(range)
    /\ passes' = passes + 1
    /\ pc' = "test"
    /\ UNCHANGED <<inputVars, viewVars, chunkIt, concatIt, orderedIt, rangeIt, out,
                   thrown, reads, countVars, result>>

\* it != view.end()
AppendTest ==
    /\ kind = "append"
    /\ pc = "test"
    /\ pc' = IF AppendIteratorEq(appendIt, AppendViewEnd(range))
             THEN "done" ELSE "body"
    /\ UNCHANGED <<inputVars, viewVars, itVars, out, thrown, reads, countVars,
                   passes, result>>

\* out.push_back(it.operator*()); also tried on the cursor equal to end().
AppendDeref ==
    /\ kind = "append"
    /\ pc \in {"body", "done"}
    /\ \E o \in AppendIteratorDeref(appendIt, range, value) :
          IF o.thrown = NoThrow
          THEN /\ out' = Append(out, o.val)
               /\ pc' = "step"
               /\ UNCHANGED thrown
          ELSE /\ thrown' = o.thrown
               /\ pc' = "failed"
               /\ UNCHANGED out
    /\ reads' = reads + (IF appendIt.position = "InRange" THEN 1 ELSE 0)
    /\ UNCHANGED <<inputVars, viewVars, itVars, countVars, passes, result>>

\* ++it; also tried on the cursor equal to end().
AppendInc ==
    /\ kind = "append"
    /\ pc \in {"step", "done"}
    /\ \E o \in AppendIteratorInc(appendIt, range) :
          IF o.thrown = NoThrow
          THEN /\ appendIt' = o.val
               /\ pc' = "test"
               /\ UNCHANGED thrown
          ELSE /\ thrown' = o.thrown
               /\ pc' = "failed"
               /\ UNCHANGED appendIt
    /\ UNCHANGED <<inputVars, viewVars, chunkIt, concatIt, orderedIt, rangeIt, out,
                   reads, countVars, passes, result>>

\* it = view.end(): the client starts the backward loop
\*     for (it = view.end(); it != view.begin(); ) { --it; out.push_back(it.operator*()); }
\* which is how std::views::reverse walks the view.
AppendEnd ==
    /\ kind = "append"
    /\ pc = "built"
    /\ appendIt' = AppendViewEnd(range)
    /\ passes' = passes + 1
    /\ pc' = "rtest"
    /\ UNCHANGED <<inputVars, viewVars, chunkIt, concatIt, orderedIt, rangeIt, out,
                   thrown, reads, countVars, result>>

\* it != view.begin()
AppendReverseTest ==
    /\ kind = "append"
    /\ pc = "rtest"
    /\ pc' = IF AppendIteratorEq(appendIt, AppendViewBegin(range))
             THEN "rdone" ELSE "rstep"
    /\ UNCHANGED <<inputVars, viewVars, itVars, out, thrown, reads, countVars,
                   passes, result>>

\* --it
AppendDec ==
    /\ kind = "append"
    /\ pc = "rstep"
    /\ \E o \in AppendIteratorDec(appendIt, range) :
          IF o.thrown = NoThrow
          THEN /\ appendIt' = o.val
               /\ pc' = "rbody"
               /\ UNCHANGED thrown
          ELSE /\ thrown' = o.thrown
               /\ pc' = "failed"
               /\ UNCHANGED appendIt
    /\ UNCHANGED <<inputVars, viewVars, chunkIt, concatIt, orderedIt, rangeIt, out,
                   reads, countVars, passes, result>>

\* out.push_back(it.operator*()) in the backward loop
AppendReverseDeref ==
    /\ kind = "append"
    /\ pc = "rbody"
    /\ \E o \in AppendIteratorDeref(appendIt, range, value) :
          IF o.thrown = NoThrow
          THEN /\ out' = Append(out, o.val)
               /\ pc' = "rtest"
               /\ UNCHANGED thrown
          ELSE /\ thrown' = o.thrown
               /\ pc' = "failed"
               /\ UNCHANGED out
    /\ reads' = reads + (IF appendIt.position = "InRange" THEN 1 ELSE 0)
    /\ UNCHANGED <<inputVars, viewVars, itVars, countVars, passes, result>>

\* range | Chunk(size): ChunkAdaptor::operator() builds the ChunkView, whose
\* constructor throws for size 0.
ChunkConstruct ==
    /\ kind = "chunk"
    /\ pc = "start"
    /\ LET o == ChunkViewCtor(adaptor.Size) IN
          IF o.thrown = NoThrow
          THEN /\ size' = o.val
               /\ pc' = "built"
               /\ UNCHANGED thrown
          ELSE /\ thrown' = o.thrown
               /\ pc' = "failed"
               /\ UNCHANGED size
    /\ UNCHANGED <<inputVars, value, comparer, projection, sorted, sortedRange,
                   itVars, out, reads, countVars, passes, result>>

\* it = view.begin()
ChunkBegin ==
    /\ kind = "chunk"
    /\ pc = "built"
    /\ chunkIt' = ChunkViewBegin(size, range)
    /\ passes' = passes + 1
    /\ pc' = "test"
    /\ UNCHANGED <<inputVars, viewVars, appendIt, concatIt, orderedIt, rangeIt, out,
                   thrown, reads, countVars, result>>

\* it != view.end()
ChunkTest ==
    /\ kind = "chunk"
    /\ pc = "test"
    /\ pc' = IF ChunkIteratorEq(chunkIt, ChunkViewEnd(size, range))
             THEN "done" ELSE "body"
    /\ UNCHANGED <<inputVars, viewVars, itVars, out, thrown, reads, countVars,
                   passes, result>>

\* out.push_back(it.operator*()): the client copies the chunk's elements.
ChunkDeref ==
    /\ kind = "chunk"
    /\ pc = "body"
    /\ LET chunk == ChunkIteratorDeref(chunkIt) IN
          /\ out' = Append(out, SubrangeElements(range, chunk))
          /\ reads' = reads + (chunk.to - chunk.from)
    /\ pc' = "step"
    /\ UNCHANGED <<inputVars, viewVars, itVars, thrown, countVars, passes,
                   result>>

\* ++it
ChunkInc ==
    /\ kind = "chunk"
    /\ pc = "step"
    /\ chunkIt' = ChunkIteratorInc(chunkIt, size, range)
    /\ pc' = "test"
    /\ UNCHANGED <<inputVars, viewVars, appendIt, concatIt, orderedIt, rangeIt, out,
                   thrown, reads, countVars, passes, result>>

\* it = view.end(): the client starts the backward loop
\*     for (it = view.end(); it != view.begin(); ) { --it; out.push_back(it.operator*()); }
\* which is how std::views::reverse walks the view.
ChunkEnd ==
    /\ kind = "chunk"
    /\ pc = "built"
    /\ chunkIt' = ChunkViewEnd(size, range)
    /\ passes' = passes + 1
    /\ pc' = "rtest"
    /\ UNCHANGED <<inputVars, viewVars, appendIt, concatIt, orderedIt, rangeIt, out,
                   thrown, reads, countVars, result>>

\* it != view.begin()
ChunkReverseTest ==
    /\ kind = "chunk"
    /\ pc = "rtest"
    /\ pc' = IF ChunkIteratorEq(chunkIt, ChunkViewBegin(size, range))
             THEN "rdone" ELSE "rstep"
    /\ UNCHANGED <<inputVars, viewVars, itVars, out, thrown, reads, countVars,
                   passes, result>>

\* --it
ChunkDec ==
    /\ kind = "chunk"
    /\ pc = "rstep"
    /\ chunkIt' = ChunkIteratorDec(chunkIt, size, range)
    /\ pc' = "rbody"
    /\ UNCHANGED <<inputVars, viewVars, appendIt, concatIt, orderedIt, rangeIt, out,
                   thrown, reads, countVars, passes, result>>

\* out.push_back(it.operator*()) in the backward loop
ChunkReverseDeref ==
    /\ kind = "chunk"
    /\ pc = "rbody"
    /\ LET chunk == ChunkIteratorDeref(chunkIt) IN
          /\ out' = Append(out, SubrangeElements(range, chunk))
          /\ reads' = reads + (chunk.to - chunk.from)
    /\ pc' = "rtest"
    /\ UNCHANGED <<inputVars, viewVars, itVars, thrown, countVars, passes,
                   result>>

\* view.size() on the ChunkView, before or after the client's loop.
ChunkSize ==
    /\ kind = "chunk"
    /\ pc \in {"built", "done"}
    /\ ~result.has
    /\ result' = ReturnedValue(ChunkViewSize(size, range))
    /\ UNCHANGED <<inputVars, viewVars, itVars, pc, out, thrown, reads,
                   countVars, passes>>

\* A Concat adaptor that reads both ranges to the end when it is applied.
ConcatConstructDrains ==
    /\ kind = "concat"
    /\ pc = "start"
    /\ pc' = "built"
    /\ reads' = reads + Len(range) + Len(otherRange)
    /\ UNCHANGED <<inputVars, viewVars, itVars, out, thrown, countVars,
                   passes, result>>

\* range | Concat(otherRange): ConcatAdaptor::operator() builds the
\* ConcatView over both ranges, in the expression that made the adaptor.
ConcatConstruct ==
    /\ kind = "concat"
    /\ pc = "start"
    /\ pc' = "built"
    /\ UNCHANGED <<inputVars, viewVars, itVars, out, thrown, reads, countVars,
                   passes, result>>

\* it = view.begin()
ConcatBegin ==
    /\ kind = "concat"
    /\ pc = "built"
    /\ concatIt' = ConcatViewBegin(range, otherRange)
    /\ passes' = passes + 1
    /\ pc' = "test"
    /\ UNCHANGED <<inputVars, viewVars, appendIt, chunkIt, orderedIt, rangeIt, out,
                   thrown, reads, countVars, result>>

\* it != view.end()
ConcatTest ==
    /\ kind = "concat"
    /\ pc = "test"
    /\ pc' = IF ConcatIteratorEq(concatIt, ConcatViewEnd(range, otherRange))
             THEN "done" ELSE "body"
    /\ UNCHANGED <<inputVars, viewVars, itVars, out, thrown, reads, countVars,
                   passes, result>>

\* out.push_back(it.operator*())
ConcatDeref ==
    /\ kind = "concat"
    /\ pc = "body"
    /\ \E o \in ConcatIteratorDeref(concatIt, range, otherRange) :
          IF o.thrown = NoThrow
          THEN /\ out' = Append(out, o.val)
               /\ pc' = "step"
               /\ UNCHANGED thrown
          ELSE /\ thrown' = o.thrown
               /\ pc' = "failed"
               /\ UNCHANGED out
    /\ reads' = reads + 1
    /\ UNCHANGED <<inputVars, viewVars, itVars, countVars, passes, result>>

\* ++it
ConcatInc ==
    /\ kind = "concat"
    /\ pc = "step"
    /\ \E o \in ConcatIteratorInc(concatIt, range, otherRange) :
          IF o.thrown = NoThrow
          THEN /\ concatIt' = o.val
               /\ pc' = "test"
               /\ UNCHANGED thrown
          ELSE /\ thrown' = o.thrown
               /\ pc' = "failed"
               /\ UNCHANGED concatIt
    /\ UNCHANGED <<inputVars, viewVars, appendIt, chunkIt, orderedIt, rangeIt, out,
                   reads, countVars, passes, result>>

\* it = view.end(): the client starts the backward loop
\*     for (it = view.end(); it != view.begin(); ) { --it; out.push_back(it.operator*()); }
\* which is how std::views::reverse walks the view.
ConcatEnd ==
    /\ kind = "concat"
    /\ pc = "built"
    /\ concatIt' = ConcatViewEnd(range, otherRange)
    /\ passes' = passes + 1
    /\ pc' = "rtest"
    /\ UNCHANGED <<inputVars, viewVars, appendIt, chunkIt, orderedIt, rangeIt, out,
                   thrown, reads, countVars, result>>

\* it != view.begin()
ConcatReverseTest ==
    /\ kind = "concat"
    /\ pc = "rtest"
    /\ pc' = IF ConcatIteratorEq(concatIt, ConcatViewBegin(range, otherRange))
             THEN "rdone" ELSE "rstep"
    /\ UNCHANGED <<inputVars, viewVars, itVars, out, thrown, reads, countVars,
                   passes, result>>

\* --it
ConcatDec ==
    /\ kind = "concat"
    /\ pc = "rstep"
    /\ \E o \in ConcatIteratorDec(concatIt, range, otherRange) :
          IF o.thrown = NoThrow
          THEN /\ concatIt' = o.val
               /\ pc' = "rbody"
               /\ UNCHANGED thrown
          ELSE /\ thrown' = o.thrown
               /\ pc' = "failed"
               /\ UNCHANGED concatIt
    /\ UNCHANGED <<inputVars, viewVars, appendIt, chunkIt, orderedIt, rangeIt, out,
                   reads, countVars, passes, result>>

\* out.push_back(it.operator*()) in the backward loop
ConcatReverseDeref ==
    /\ kind = "concat"
    /\ pc = "rbody"
    /\ \E o \in ConcatIteratorDeref(concatIt, range, otherRange) :
          IF o.thrown = NoThrow
          THEN /\ out' = Append(out, o.val)
               /\ pc' = "rtest"
               /\ UNCHANGED thrown
          ELSE /\ thrown' = o.thrown
               /\ pc' = "failed"
               /\ UNCHANGED out
    /\ reads' = reads + 1
    /\ UNCHANGED <<inputVars, viewVars, itVars, countVars, passes, result>>

\* view.size() on the ConcatView, before or after the client's loop.
ConcatSize ==
    /\ kind = "concat"
    /\ pc \in {"built", "done", "rdone"}
    /\ ~result.has
    /\ result' = ReturnedValue(ConcatViewSize(range, otherRange))
    /\ UNCHANGED <<inputVars, viewVars, itVars, pc, out, thrown, reads,
                   countVars, passes>>

\* range | Order(), OrderBy(p), OrderDescending(), OrderByDescending(p):
\* OrderAdaptor::operator() builds the OrderedView.
OrderedConstruct ==
    /\ kind = "ordered"
    /\ pc = "start"
    /\ comparer' = adaptor.Comparer
    /\ projection' = adaptor.Projection
    /\ \E m \in OrderedViewCtor(range, adaptor.Comparer, adaptor.Projection) :
          /\ sorted' = m.sorted
          /\ sortedRange' = m.sortedRange
          /\ drains' = drains + m.drained
          /\ sorts' = sorts + m.sortRuns
          /\ reads' = reads + m.drained * Len(range)
    /\ pc' = "built"
    /\ UNCHANGED <<inputVars, value, size, itVars, out, thrown, calls, passes,
                   result>>

\* it = view.begin(): starts a traversal of the view.  A client that caught
\* an exception of the view may start again.
OrderedBegin ==
    /\ kind = "ordered"
    /\ pc \in {"built", "done"} \/ (pc = "failed" /\ thrown # Crash)
    /\ passes < MaxPasses
    /\ \E m \in EnsureSorted(sorted, sortedRange, range, comparer, projection) :
          /\ sorted' = m.sorted
          /\ sortedRange' = m.sortedRange
          /\ range' = m.view
          /\ drains' = drains + m.drained
          /\ sorts' = sorts + m.sortRuns
          /\ reads' = reads + m.drained * Len(range)
          /\ thrown' = m.thrown
          /\ IF m.thrown = NoThrow
             THEN orderedIt' = 0 /\ pc' = "test"
             ELSE UNCHANGED orderedIt /\ pc' = "failed"
    /\ calls' = calls + 1
    /\ out' = <<>>
    /\ passes' = passes + 1
    /\ UNCHANGED <<kind, otherRange, adaptor, bidirectional, start, count, value, size,
                   comparer, projection, appendIt, chunkIt, concatIt, rangeIt, result>>

\* view.end(): as the loop's test it != view.end(), or called by the client
\* before any begin().
OrderedEnd ==
    /\ kind = "ordered"
    /\ pc = "test" \/ (pc = "built" /\ calls = 0)
    /\ \E m \in EnsureSorted(sorted, sortedRange, range, comparer, projection) :
          /\ sorted' = m.sorted
          /\ sortedRange' = m.sortedRange
          /\ range' = m.view
          /\ drains' = drains + m.drained
          /\ sorts' = sorts + m.sortRuns
          /\ reads' = reads + m.drained * Len(range)
          /\ thrown' = m.thrown
          /\ pc' = IF m.thrown # NoThrow THEN "failed"
                   ELSE IF pc = "built" THEN "built"
                   ELSE IF orderedIt = Len(m.sortedRange) THEN "done" ELSE "body"
    /\ calls' = calls + 1
    /\ UNCHANGED <<kind, otherRange, adaptor, bidirectional, start, count, value, size,
                   comparer, projection, itVars, out, passes, result>>

\* out.push_back(it.operator*()) on the iterator into _sortedRange.
OrderedDeref ==
    /\ kind = "ordered"
    /\ pc = "body"
    /\ \E o \in DerefSource(sortedRange, orderedIt) :
          IF o.thrown = NoThrow
          THEN /\ out' = Append(out, o.val)
               /\ pc' = "step"
               /\ UNCHANGED thrown
          ELSE /\ thrown' = o.thrown
               /\ pc' = "failed"
               /\ UNCHANGED out
    /\ UNCHANGED <<inputVars, viewVars, itVars, reads, countVars, passes,
                   result>>

\* ++it on the iterator into _sortedRange.
OrderedInc ==
    /\ kind = "ordered"
    /\ pc = "step"
    /\ orderedIt' = orderedIt + 1
    /\ pc' = "test"
    /\ UNCHANGED <<inputVars, viewVars, appendIt, chunkIt, concatIt, rangeIt, out,
                   thrown, reads, countVars, passes, result>>

\* *it = v on the cursor begin() returned: begin() and end() are const but
\* _sortedRange is mutable, so the cursor is a std::vector<T>::iterator and
\* its operator* gives a T& into the buffer.  The client writes and stops.
OrderedAssign ==
    /\ kind = "ordered"
    /\ pc = "body"
    /\ \E v \in Values :
          sortedRange' = [sortedRange EXCEPT ![orderedIt + 1] = v]
    /\ pc' = "written"
    /\ UNCHANGED <<inputVars, value, size, comparer, projection, sorted,
                   itVars, out, thrown, reads, countVars, passes, result>>

\* A terminal adaptor that sorts the range it was given.
FinishSortsRange(r) ==
    /\ result' = r
    /\ thrown' = r.thrown
    /\ pc' = IF r.thrown = NoThrow THEN "done" ELSE "failed"
    /\ range' \in RangesSort(range, "less", "identity")
    /\ UNCHANGED <<kind, otherRange, adaptor, bidirectional, start, count, viewVars, itVars,
                   out, reads, countVars, passes>>

\* The client receives what a terminal adaptor returned or threw; the range
\* was passed by reference and only read.
Finish(r) ==
    /\ result' = r
    /\ thrown' = r.thrown
    /\ pc' = IF r.thrown = NoThrow THEN "done" ELSE "failed"
    /\ UNCHANGED <<inputVars, viewVars, itVars, out, reads, countVars, passes>>

\* range | First()
First ==
    /\ kind = "terminal"
    /\ pc = "start"
    /\ adaptor.Op = "First"
    /\ \E r \in FirstAdaptor(range) : Finish(r)

\* range | FisrtOrDefault()
FirstOrDefault ==
    /\ kind = "terminal"
    /\ pc = "start"
    /\ adaptor.Op = "FirstOrDefault"
    /\ \E r \in FirstOrDefaultAdaptor(range) : Finish(r)

\* range | Last()
Last ==
    /\ kind = "terminal"
    /\ pc = "start"
    /\ adaptor.Op = "Last"
    /\ \E r \in LastAdaptor(range, bidirectional) : Finish(r)

\* range | LastOrDefault()
LastOrDefault ==
    /\ kind = "terminal"
    /\ pc = "start"
    /\ adaptor.Op = "LastOrDefault"
    /\ \E r \in LastOrDefaultAdaptor(range, bidirectional) : Finish(r)

\* range | First(predicate)
First2 ==
    /\ kind = "terminal"
    /\ pc = "start"
    /\ adaptor.Op = "First2"
    /\ \E r \in FirstAdaptor2(range, adaptor.Predicate) : Finish(r)

\* range | FisrtOrDefault(predicate)
FirstOrDefault2 ==
    /\ kind = "terminal"
    /\ pc = "start"
    /\ adaptor.Op = "FirstOrDefault2"
    /\ \E r \in FirstOrDefaultAdaptor2(range, adaptor.Predicate) : Finish(r)

\* range | Last(predicate)
Last2 ==
    /\ kind = "terminal"
    /\ pc = "start"
    /\ adaptor.Op = "Last2"
    /\ \E r \in LastAdaptor2(range, adaptor.Predicate, bidirectional) : Finish(r)

\* range | LastOrDefault(predicate)
LastOrDefault2 ==
    /\ kind = "terminal"
    /\ pc = "start"
    /\ adaptor.Op = "LastOrDefault2"
    /\ \E r \in LastOrDefaultAdaptor2(range, adaptor.Predicate, bidirectional) :
          Finish(r)

\* range | ElementAt(position)
ElementAt ==
    /\ kind = "terminal"
    /\ pc = "start"
    /\ adaptor.Op = "ElementAt"
    /\ \E r \in ElementAtAdaptor(range, adaptor.Position) : Finish(r)

\* range | ElementAtOrDefault(position)
ElementAtOrDefault ==
    /\ kind = "terminal"
    /\ pc = "start"
    /\ adaptor.Op = "ElementAtOrDefault"
    /\ \E r \in ElementAtOrDefaultAdaptor(range, adaptor.Position) : Finish(r)

\* range | Max() and range | MaxBy(projection)
MaxBy ==
    /\ kind = "terminal"
    /\ pc = "start"
    /\ adaptor.Op = "Max"
    /\ \E r \in MaxAdaptor(range, adaptor.Projection) : Finish(r)

\* range | Min() and range | MinBy(projection)
MinBy ==
    /\ kind = "terminal"
    /\ pc = "start"
    /\ adaptor.Op = "Min"
    /\ \E r \in MinAdaptor(range, adaptor.Projection) : Finish(r)

\* range | ToUnorderedMap(keySelector, elementSelector)
ToUnorderedMap ==
    /\ kind = "terminal"
    /\ pc = "start"
    /\ adaptor.Op = "ToUnorderedMap"
    /\ \E r \in ToUnorderedMapAdaptor(range, adaptor.KeySelector,
                                      adaptor.ElementSelector) : Finish(r)

\* range | ToUnorderedMap(selector)
ToUnorderedMap2 ==
    /\ kind = "terminal"
    /\ pc = "start"
    /\ adaptor.Op = "ToUnorderedMap2"
    /\ \E r \in ToUnorderedMapAdaptor2(range, adaptor.KeySelector) : Finish(r)

\* range | Aggregate(func)
Aggregate ==
    /\ kind = "terminal"
    /\ pc = "start"
    /\ adaptor.Op = "Aggregate"
    /\ \E r \in AggregateAdaptor(range) : Finish(r)

\* range | Aggregate(func, seed)
Agregate2 ==
    /\ kind = "terminal"
    /\ pc = "start"
    /\ adaptor.Op = "Agregate2"
    /\ \E r \in AgregateAdaptor2(range, adaptor.Seed) : Finish(r)

\* range | All(predicate)
AllOf ==
    /\ kind = "terminal"
    /\ pc = "start"
    /\ adaptor.Op = "All"
    /\ \E r \in AllAdaptor(range, adaptor.Predicate) : Finish(r)

\* range | Any(predicate)
AnyOf ==
    /\ kind = "terminal"
    /\ pc = "start"
    /\ adaptor.Op = "Any"
    /\ \E r \in AnyAdaptor(range, adaptor.Predicate) : Finish(r)

\* range | Contains(value)
Contains ==
    /\ kind = "terminal"
    /\ pc = "start"
    /\ adaptor.Op = "Contains"
    /\ \E r \in ContainsAdaptor(range, adaptor.Value) : Finish(r)

\* range | Count()
CountRange ==
    /\ kind = "terminal"
    /\ pc = "start"
    /\ adaptor.Op = "Count"
    /\ \E r \in CountAdaptor(range) : Finish(r)

\* range | Average()
Average ==
    /\ kind = "terminal"
    /\ pc = "start"
    /\ adaptor.Op = "Average"
    /\ \E r \in AverageAdaptor(range) : Finish(r)

\* range | To<std::vector>() and range | ToVector()
To ==
    /\ kind = "terminal"
    /\ pc = "start"
    /\ adaptor.Op = "To"
    /\ \E r \in ToAdaptor(range) : Finish(r)

Next ==
    \/ AppendConstruct
    \/ AppendBegin
    \/ AppendTest
    \/ AppendDeref
    \/ AppendInc
    \/ AppendEnd
    \/ AppendReverseTest
    \/ AppendDec
    \/ AppendReverseDeref
    \/ ChunkConstruct
    \/ ChunkBegin
    \/ ChunkTest
    \/ ChunkDeref
    \/ ChunkInc
    \/ ChunkEnd
    \/ ChunkReverseTest
    \/ ChunkDec
    \/ ChunkReverseDeref
    \/ ChunkSize
    \/ ConcatConstruct
    \/ ConcatBegin
    \/ ConcatTest
    \/ ConcatDeref
    \/ ConcatInc
    \/ ConcatEnd
    \/ ConcatReverseTest
    \/ ConcatDec
    \/ ConcatReverseDeref
    \/ ConcatSize
    \/ OrderedConstruct
    \/ OrderedBegin
    \/ OrderedEnd
    \/ OrderedDeref
    \/ OrderedInc
    \/ OrderedAssign
    \/ First
    \/ FirstOrDefault
    \/ Last
    \/ LastOrDefault
    \/ First2
    \/ FirstOrDefault2
    \/ Last2
    \/ LastOrDefault2
    \/ ElementAt
    \/ ElementAtOrDefault
    \/ MaxBy
    \/ MinBy
    \/ ToUnorderedMap
    \/ ToUnorderedMap2
    \/ Aggregate
    \/ Agregate2
    \/ AllOf
    \/ AnyOf
    \/ Contains
    \/ CountRange
    \/ Average
    \/ To

Spec == Init /\ [][Next]_vars

\* A ChunkView built by range | Chunk(n) for every n >= 1 that a size_t
\* holds, n >= 2^(SizeBits-1) included.
SizeInit ==
    /\ kind = "chunk"
    /\ range \in SeqsUpTo(MaxLen)
    /\ otherRange = <<>>
    /\ adaptor \in {[DefaultAdaptor EXCEPT !.Size = n] : n \in 1 .. SizeModulus - 1}
    /\ bidirectional = TRUE
    /\ start = 0
    /\ count = 0
    /\ pc = "built"
    /\ value = 0
    /\ size = ToTSize(adaptor.Size)
    /\ comparer = "less"
    /\ projection = "identity"
    /\ sorted = FALSE
    /\ sortedRange = <<>>
    /\ appendIt = DefaultAppendIterator
    /\ chunkIt = DefaultChunkIterator
    /\ concatIt = DefaultConcatIterator
    /\ orderedIt = 0
    /\ out = <<>>
    /\ thrown = NoThrow
    /\ reads = 0
    /\ drains = 0
    /\ sorts = 0
    /\ calls = 0
    /\ passes = 0
    /\ result = NoResult
    /\ rangeIt = 0

\* The client asks such a view for its size.
SizeSpec == SizeInit /\ [][ChunkSize]_vars

\* The state before the adaptor is applied, whatever the operands are.
Unbuilt ==
    /\ pc = "start"
    /\ value = 0
    /\ size = 1
    /\ comparer = "less"
    /\ projection = "identity"
    /\ sorted = FALSE
    /\ sortedRange = <<>>
    /\ appendIt = DefaultAppendIterator
    /\ chunkIt = DefaultChunkIterator
    /\ concatIt = DefaultConcatIterator
    /\ orderedIt = 0
    /\ out = <<>>
    /\ thrown = NoThrow
    /\ reads = 0
    /\ drains = 0
    /\ sorts = 0
    /\ calls = 0
    /\ passes = 0
    /\ result = NoResult
    /\ rangeIt = 0

\* The owner of the range an OrderedView borrows (the view holds a ref_view
\* of it) assigns to its first element, before a traversal or between two.
SourceAssign ==
    /\ kind = "ordered"
    /\ pc \in {"built", "done"}
    /\ range # <<>>
    /\ \E v \in Values : range' = [range EXCEPT ![1] = v]
    /\ UNCHANGED <<kind, otherRange, adaptor, bidirectional, start, count, pc, viewVars,
                   itVars, out, thrown, reads, countVars, passes, result>>

\* range | Order*(...) over a range its owner goes on changing.
SnapshotInit ==
    /\ kind = "ordered"
    /\ range \in SeqsUpTo(MaxLen)
    /\ otherRange = <<>>
    /\ adaptor \in Adaptors(kind)
    /\ bidirectional = TRUE
    /\ start = 0
    /\ count = 0
    /\ Unbuilt

SnapshotNext ==
    \/ OrderedConstruct
    \/ OrderedBegin
    \/ OrderedEnd
    \/ OrderedDeref
    \/ OrderedInc
    \/ SourceAssign

\* The client traverses the view, without writing through its cursor,
\* while the source changes.
SnapshotSpec == SnapshotInit /\ [][SnapshotNext]_vars

\* range | OrderBy(p) and range | OrderByDescending(p) with a projection
\* that throws for one element.
FaultInit ==
    /\ kind = "ordered"
    /\ range \in SeqsUpTo(MaxLen)
    /\ otherRange = <<>>
    /\ adaptor \in {[DefaultAdaptor EXCEPT !.Comparer = c,
                                            !.Projection = "throwing"] :
                        c \in Comparers}
    /\ bidirectional = TRUE
    /\ start = 0
    /\ count = 0
    /\ Unbuilt

FaultNext ==
    \/ OrderedConstruct
    \/ OrderedBegin
    \/ OrderedEnd
    \/ OrderedDeref
    \/ OrderedInc

\* The client traverses the view, catches what begin() or end() throws and
\* traverses again; nobody writes to the source or through the cursor.
FaultSpec == FaultInit /\ [][FaultNext]_vars

\* The values of an int.
Ints == -(2 ^ (IntBits - 1)) .. 2 ^ (IntBits - 1) - 1

\* Range(start, count): std::views::iota(start, count), the view whose
\* begin() is start and whose end() is its second argument.
Range(s, c) == [value |-> s, bound |-> c]

\* for (int x : Ranges::Range(start, count)) out.push_back(x), one iterator
\* operation per step.  iota requires that its bound is reachable from its
\* value; calling it with start > count is undefined behaviour.
RangeConstruct ==
    /\ kind = "range"
    /\ pc = "start"
    /\ \/ pc' = "built" /\ UNCHANGED thrown
       \/ start > count /\ pc' = "failed" /\ thrown' = Crash
    /\ UNCHANGED <<inputVars, viewVars, itVars, out, reads, countVars, passes,
                   result>>

\* it = view.begin()
RangeBegin ==
    /\ kind = "range"
    /\ pc = "built"
    /\ rangeIt' = Range(start, count).value
    /\ pc' = "test"
    /\ UNCHANGED <<inputVars, viewVars, appendIt, chunkIt, concatIt, orderedIt,
                   out, thrown, reads, countVars, passes, result>>

\* it != view.end()
RangeTest ==
    /\ kind = "range"
    /\ pc = "test"
    /\ pc' = IF rangeIt = Range(start, count).bound THEN "done" ELSE "body"
    /\ UNCHANGED <<inputVars, viewVars, itVars, out, thrown, reads, countVars,
                   passes, result>>

\* out.push_back(it.operator*())
RangeDeref ==
    /\ kind = "range"
    /\ pc = "body"
    /\ out' = Append(out, rangeIt)
    /\ pc' = "step"
    /\ UNCHANGED <<inputVars, viewVars, itVars, thrown, reads, countVars,
                   passes, result>>

\* ++it: ++ on the int the iterator holds.  Overflow of a signed int is
\* undefined behaviour: the value wraps or the program ends.
RangeInc ==
    /\ kind = "range"
    /\ pc = "step"
    /\ IF rangeIt + 1 \in Ints
       THEN rangeIt' = rangeIt + 1 /\ pc' = "test" /\ UNCHANGED thrown
       ELSE \/ rangeIt' = rangeIt + 1 - 2 ^ IntBits /\ pc' = "test"
                /\ UNCHANGED thrown
            \/ pc' = "failed" /\ thrown' = Crash /\ UNCHANGED rangeIt
    /\ UNCHANGED <<inputVars, viewVars, appendIt, chunkIt, concatIt, orderedIt,
                   out, reads, countVars, passes, result>>

\* Range(start, count) for any two ints.
RangeInit ==
    /\ kind = "range"
    /\ range = <<>>
    /\ otherRange = <<>>
    /\ adaptor = DefaultAdaptor
    /\ bidirectional = TRUE
    /\ start \in Ints
    /\ count \in Ints
    /\ Unbuilt

RangeNext ==
    \/ RangeConstruct
    \/ RangeBegin
    \/ RangeTest
    \/ RangeDeref
    \/ RangeInc

\* The client iterates what Range(start, count) returned.
RangeSpec == RangeInit /\ [][RangeNext]_vars

----------------------------------------------------------------------------
\* The shape of the state.

Exceptions ==
    {NoThrow, Crash,
     OutOfRange("Cannot get value at end"),
     OutOfRange("Cannot iterate out of end"),
     InvalidArgument("Size cannot be 0"),
     RuntimeError("Range is empty"),
     RuntimeError("Item not found"),
     OutOfRange("Position is out of range"),
     ProjectionFailed}

TypeOK ==
    /\ kind \in Kinds
    /\ range \in SeqsUpTo(MaxLen)
    /\ otherRange \in SeqsUpTo(MaxConcatLen)
    /\ adaptor \in Adaptors(kind)
    /\ bidirectional \in BOOLEAN
    /\ pc \in {"start", "built", "test", "body", "step", "done", "failed",
              "rtest", "rstep", "rbody", "rdone", "written"}
    /\ value \in {0} \cup Values
    /\ size \in 1 .. MaxChunk
    /\ comparer \in Comparers
    /\ projection \in Projections
    /\ sorted \in BOOLEAN
    /\ sortedRange \in SeqsUpTo(MaxLen)
    /\ appendIt \in [it : 0 .. MaxLen, position : AppendPosition]
    /\ chunkIt \in [from : 0 .. MaxLen, to : 0 .. MaxLen]
    /\ concatIt \in [isInSecond : BOOLEAN, firstIt : 0 .. MaxLen,
                     secondIt : 0 .. MaxConcatLen]
    /\ orderedIt \in 0 .. MaxLen
    /\ thrown \in Exceptions
    /\ reads \in Nat
    /\ drains \in Nat
    /\ sorts \in Nat
    /\ calls \in Nat
    /\ passes \in 0 .. MaxPasses
    /\ start \in Ints
    /\ count \in Ints
    /\ rangeIt \in Ints
    /\ result.thrown \in Exceptions
    /\ result.has \in BOOLEAN
    /\ ~result.has => result.val = 0
    /\ result.has =>
          CASE kind \in {"chunk", "concat"} -> result.val \in Nat
            [] adaptor.Op \in {"ToUnorderedMap", "ToUnorderedMap2"} ->
                 /\ DOMAIN result.val \subseteq 0 .. MaxVal
                 /\ \A k \in DOMAIN result.val : result.val[k] \in 0 .. MaxVal
            [] adaptor.Op \in {"All", "Any", "Contains"} ->
                 result.val \in BOOLEAN
            [] adaptor.Op = "Average" ->
                 IF range = <<>> THEN result.val = "NaN"
                 ELSE result.val \in Nat \X (1 .. MaxLen)
            [] adaptor.Op = "To" -> result.val \in SeqsUpTo(MaxLen)
            [] adaptor.Op \in {"Aggregate", "Agregate2", "Count"} ->
                 result.val \in Nat
            [] OTHER -> result.val \in Values

----------------------------------------------------------------------------
\* Properties.

InLoop == pc \in {"test", "body", "step"}

\* The client is in, or has ended, the backward loop.
Backward == pc \in {"rtest", "rstep", "rbody", "rdone"}

IsPrefix(s, t) == Len(s) <= Len(t) /\ s = SubSeq(t, 1, Len(s))

RECURSIVE Flatten(_)
Flatten(ss) == IF ss = <<>> THEN <<>> ELSE Head(ss) \o Flatten(Tail(ss))

CeilDiv(a, b) == (a + b - 1) \div b

Count(s, v) == Cardinality({i \in 1 .. Len(s) : s[i] = v})

IsPermutationOf(s, t) == \A v \in Values : Count(s, v) = Count(t, v)

\* C1: iterating Append(S, v) from begin() until the cursor equals end()
\* yields the elements of S in order followed by v, len(S)+1 elements in
\* all ([v] for an empty S); on the way the loop has yielded a prefix of
\* that, and it never fails.
C1_AppendYieldsSourceThenValue ==
    kind = "append" =>
        /\ InLoop => IsPrefix(out, range \o <<adaptor.Value>>)
        /\ pc = "done" =>
              /\ out = range \o <<adaptor.Value>>
              /\ Len(out) = Len(range) + 1
              /\ out[Len(out)] = adaptor.Value
        /\ pc = "failed" => Len(out) = Len(range) + 1

C1_Witness ==
    /\ kind = "append"
    /\ pc = "done"
    /\ Len(range) >= 2
    /\ out = range \o <<adaptor.Value>>

C4_ConcatYieldsFirstThenSecond ==
    kind = "concat" =>
        /\ pc # "failed"
        /\ InLoop => IsPrefix(out, range \o otherRange)
        /\ pc = "done" =>
              /\ out = range \o otherRange
              /\ Len(out) = Len(range) + Len(otherRange)
        /\ (range = <<>> /\ otherRange = <<>>) =>
              ConcatIteratorEq(ConcatViewBegin(range, otherRange),
                               ConcatViewEnd(range, otherRange))

C4_Witness ==
    /\ kind = "concat"
    /\ pc = "done"
    /\ Len(range) >= 2
    /\ Len(otherRange) >= 1
    /\ out = range \o otherRange

\* C5: iterating S | OrderBy(p) (Order() with the identity) yields a
\* permutation of S whose projected keys are non-decreasing, and
\* S | OrderByDescending(p) (OrderDescending()) one whose projected keys
\* are non-increasing.
C5_OrderedIsSortedPermutation ==
    (kind = "ordered" /\ pc = "done") =>
        /\ IsPermutationOf(out, range)
        /\ Len(out) = Len(range)
        /\ \A i \in 1 .. Len(out) : \A j \in i .. Len(out) :
              IF adaptor.Comparer = "less"
              THEN Project(adaptor.Projection, out[i])
                      <= Project(adaptor.Projection, out[j])
              ELSE Project(adaptor.Projection, out[i])
                      >= Project(adaptor.Projection, out[j])

C5_Witness ==
    /\ kind = "ordered"
    /\ pc = "done"
    /\ adaptor.Projection = "mod2"
    /\ adaptor.Comparer = "greater"
    /\ range = <<2, 1, 3>>
    /\ out = <<3, 1, 2>>

\* C6: over the begin() and end() calls on one OrderedView, the source is
\* drained once and the buffer sorted once, both in the first call; a later
\* call reads no source element, runs no sort and leaves the buffer as it
\* is.
C6_OrderedMaterializesOnce ==
    [][kind = "ordered" =>
          /\ (calls = 0 /\ calls' = 1) =>
                /\ drains' = drains + 1
                /\ sorts' = sorts + 1
                /\ reads' = reads + Len(range)
          /\ calls' >= 1 => (drains' = 1 /\ sorts' = 1 /\ reads' = Len(range))
          /\ calls >= 1 =>
                /\ drains' = drains
                /\ sorts' = sorts
                /\ reads' = reads
          /\ (calls >= 1 /\ calls' = calls + 1) =>
                sortedRange' = sortedRange]_vars

C6_Witness ==
    /\ kind = "ordered"
    /\ passes = 2
    /\ pc = "done"
    /\ calls >= 2 * (Len(range) + 2)
    /\ Len(range) >= 2
    /\ drains = 1
    /\ sorts = 1

\* C7: constructing an OrderedView does no work: until the first begin() or
\* end() no source element is read, nothing is sorted and the buffer is
\* empty.
C7_OrderedConstructionIsLazy ==
    (kind = "ordered" /\ calls = 0) =>
        /\ reads = 0
        /\ drains = 0
        /\ sorts = 0
        /\ ~sorted
        /\ sortedRange = <<>>

C7_Witness ==
    /\ kind = "ordered"
    /\ pc = "built"
    /\ calls = 0
    /\ Len(range) >= 2
    /\ adaptor.Projection = "mod2"

\* C8: an AppendView cursor in InEnd (the cursor equal to end()) fails with
\* std::out_of_range when advanced and when dereferenced; a cursor in
\* InRange or InAppend reached by forward iteration from begin() fails on
\* neither.
C8_AppendFailsOnlyAtEnd ==
    (kind = "append" /\ pc \notin {"start", "built"}) =>
        /\ AppendIteratorEq(appendIt, AppendViewEnd(range)) =>
              appendIt.position = "InEnd"
        /\ appendIt.position = "InEnd" =>
              /\ \A o \in AppendIteratorDeref(appendIt, range, value) :
                    o.thrown.type = "std::out_of_range"
              /\ \A o \in AppendIteratorInc(appendIt, range) :
                    o.thrown.type = "std::out_of_range"
        /\ appendIt.position \in {"InRange", "InAppend"} =>
              /\ \A o \in AppendIteratorDeref(appendIt, range, value) :
                    o.thrown = NoThrow
              /\ \A o \in AppendIteratorInc(appendIt, range) :
                    o.thrown = NoThrow
        /\ pc = "done" => appendIt.position = "InEnd"
        /\ pc = "failed" <=> thrown # NoThrow
        /\ pc = "failed" =>
              /\ thrown.type = "std::out_of_range"
              /\ appendIt.position = "InEnd"

C8_Witness ==
    /\ kind = "append"
    /\ pc = "failed"
    /\ Len(range) >= 1
    /\ appendIt = AppendViewEnd(range)
    /\ thrown = OutOfRange("Cannot get value at end")

\* C9: constructing a ChunkView with size 0 fails with std::invalid_argument
\* for every source, at construction: no view and no cursor exist and no
\* source element has been read; a size >= 1 does not fail.
C9_ChunkZeroSizeFails ==
    (kind = "chunk" /\ pc # "start") =>
        /\ adaptor.Size = 0 =>
              /\ pc = "failed"
              /\ thrown.type = "std::invalid_argument"
              /\ chunkIt = DefaultChunkIterator
              /\ passes = 0
              /\ reads = 0
              /\ out = <<>>
        /\ adaptor.Size >= 1 => (pc # "failed" /\ thrown = NoThrow)

C9_Witness ==
    /\ kind = "chunk"
    /\ adaptor.Size = 0
    /\ range = <<>>
    /\ pc = "failed"
    /\ thrown = InvalidArgument("Size cannot be 0")

\* C10: on an empty sequence First() and Last() fail with the runtime error
\* "Range is empty" while FirstOrDefault() and LastOrDefault() return an
\* empty optional without failing; on a non-empty sequence all four return
\* the first (respectively last) element.
C10_FirstLastOnEmptyAndNonEmpty ==
    (kind = "terminal" /\ pc # "start") =>
        /\ pc = "failed" <=> result.thrown # NoThrow
        /\ (range = <<>> /\ adaptor.Op \in {"First", "Last"}) =>
              result = Failed(RuntimeError("Range is empty"))
        /\ (range = <<>> /\ adaptor.Op \in {"FirstOrDefault", "LastOrDefault"}) =>
              (result = Nullopt /\ pc = "done")
        /\ (range # <<>> /\ adaptor.Op \in {"First", "FirstOrDefault"}) =>
              (result = ReturnedValue(range[1]) /\ pc = "done")
        /\ (range # <<>> /\ adaptor.Op \in {"Last", "LastOrDefault"}) =>
              (result = ReturnedValue(range[Len(range)]) /\ pc = "done")

C10_Witness ==
    /\ kind = "terminal"
    /\ range = <<>>
    /\ adaptor.Op = "FirstOrDefault"
    /\ pc = "done"
    /\ result = Nullopt

\* The positions of the elements of s that satisfy predicate p.
Matching(s, p) == {i \in 1 .. Len(s) : Predicate(p, s[i])}

\* C11: First(p) returns the earliest element satisfying p and Last(p) the
\* latest one, each failing with "Item not found" exactly when no element
\* satisfies p (an empty sequence included); FirstOrDefault(p) and
\* LastOrDefault(p) return the same element in an optional, or an empty
\* optional exactly when nothing is found, and never fail.
C11_FirstLastWithPredicate ==
    (/\ kind = "terminal"
     /\ pc # "start"
     /\ adaptor.Op \in {"First2", "FirstOrDefault2", "Last2", "LastOrDefault2"}) =>
        LET m == Matching(range, adaptor.Predicate)
            earliest == CHOOSE i \in m : \A j \in m : i <= j
            latest == CHOOSE i \in m : \A j \in m : i >= j
        IN  /\ (m = {} /\ adaptor.Op \in {"First2", "Last2"}) =>
                  (result = Failed(RuntimeError("Item not found")) /\ pc = "failed")
            /\ (m = {} /\ adaptor.Op \in {"FirstOrDefault2", "LastOrDefault2"}) =>
                  (result = Nullopt /\ pc = "done")
            /\ (m # {} /\ adaptor.Op \in {"First2", "FirstOrDefault2"}) =>
                  (result = ReturnedValue(range[earliest]) /\ pc = "done")
            /\ (m # {} /\ adaptor.Op \in {"Last2", "LastOrDefault2"}) =>
                  (result = ReturnedValue(range[latest]) /\ pc = "done")

C11_Witness ==
    /\ kind = "terminal"
    /\ adaptor.Op = "Last2"
    /\ adaptor.Predicate = "odd"
    /\ ~bidirectional
    /\ range = <<1, 3, 2>>
    /\ pc = "done"
    /\ result = ReturnedValue(3)

IsException(e) ==
    e.type \in {"std::out_of_range", "std::invalid_argument", "std::runtime_error"}

\* C13: Min, Max, MinBy and MaxBy applied to an empty sequence fail with an
\* error reported to the caller, rather than returning a value or proceeding
\* without an error.
C13_MinMaxFailOnEmpty ==
    (/\ kind = "terminal"
     /\ pc # "start"
     /\ adaptor.Op \in {"Max", "Min"}
     /\ range = <<>>) =>
        (pc = "failed" /\ ~result.has /\ IsException(result.thrown))

\* The keys the elements of s project to under key selector ks.
KeysOf(s, ks) == {Project(ks, s[i]) : i \in 1 .. Len(s)}

\* Two elements of s project to the same key.
KeysCollide(s, ks) ==
    \E i, j \in 1 .. Len(s) : i # j /\ Project(ks, s[i]) = Project(ks, s[j])

\* C14: ToUnorderedMap with a key projection fails when two elements of the
\* sequence project to the same key; when all projected keys are distinct
\* it returns a mapping with exactly one entry per element.
C14_MapFailsOnKeyCollision ==
    (/\ kind = "terminal"
     /\ pc # "start"
     /\ adaptor.Op \in {"ToUnorderedMap", "ToUnorderedMap2"}) =>
        IF KeysCollide(range, adaptor.KeySelector)
        THEN pc = "failed" /\ IsException(result.thrown)
        ELSE /\ pc = "done"
             /\ result.has
             /\ DOMAIN result.val = KeysOf(range, adaptor.KeySelector)
             /\ Cardinality(DOMAIN result.val) = Len(range)

\* C15: ConcatView.size() equals size(S1) + size(S2), equals the number of
\* elements produced by forward iteration, and is computed without
\* iterating: the step that calls size() creates, advances and dereferences
\* no cursor of either source.
C15_ConcatSizeIsSumWithoutIterating ==
    /\ [](kind = "concat" /\ result.has =>
            /\ result.val = Len(range) + Len(otherRange)
            /\ pc = "done" => result.val = Len(out))
    /\ [][kind = "concat" /\ result' # result =>
            /\ concatIt' = concatIt
            /\ reads' = reads
            /\ passes' = passes
            /\ out' = out
            /\ pc' = pc]_vars

C15_Witness ==
    /\ kind = "concat"
    /\ range = <<1, 2>>
    /\ otherRange = <<1>>
    /\ pc = "done"
    /\ out = <<1, 2, 1>>
    /\ result = ReturnedValue(3)

\* The least k with k * b >= a.
Ceil(a, b) == CHOOSE k \in 0 .. a : k * b >= a /\ (k = 0 \/ (k - 1) * b < a)

\* C16: ChunkView.size() equals ceil(sourceSize / n) for every
\* sourceSize >= 0 and n >= 1 (0 for an empty source), and this value equals
\* the number of chunks produced by forward iteration from begin() to end().
C16_ChunkSizeIsCeil ==
    (kind = "chunk" /\ result.has) =>
        /\ result.val = Ceil(Len(range), adaptor.Size)
        /\ range = <<>> => result.val = 0
        /\ pc = "done" => result.val = Len(out)

\* C17: no eager terminal operator mutates the sequence it is applied to:
\* after the operator returns or fails, the sequence's elements and their
\* order are the same as before the call.
C17_TerminalLeavesSequenceUnchanged ==
    [][kind = "terminal" => (range' = range /\ otherRange' = otherRange)]_vars

C17_Witness ==
    /\ kind = "terminal"
    /\ adaptor.Op = "Max"
    /\ range = <<3, 1, 2>>
    /\ pc = "done"
    /\ result = ReturnedValue(3)

LazyKinds == {"append", "chunk", "concat", "ordered"}

\* C18: constructing and traversing (forward or backward) an AppendView,
\* ChunkView, ConcatView or OrderedView leaves the contents and order of its
\* source sequences unchanged; OrderedView sorts only its own buffer, so
\* after materialization the source still holds its elements in their
\* original order.
C18_ViewsLeaveSourcesUnchanged ==
    [][(kind \in LazyKinds) => (range' = range /\ otherRange' = otherRange)]_vars

C18_Witness ==
    /\ kind = "ordered"
    /\ adaptor.Comparer = "less"
    /\ adaptor.Projection = "identity"
    /\ sorted
    /\ range = <<3, 1, 2>>
    /\ sortedRange = <<1, 2, 3>>
    /\ pc = "done"

\* C19: applying a lazy adaptor (Append, Chunk, Concat, Order*) reads no
\* element of its source at the time it is applied - elements are read only
\* once the resulting view is iterated (or its begin()/end() is called) -
\* whereas applying an eager adaptor runs to completion in the step that
\* applies it and yields its value or its failure at that moment.
C19_LazyVersusEager ==
    /\ (kind \in LazyKinds /\ pc = "built" /\ passes = 0 /\ calls = 0) =>
          (reads = 0 /\ drains = 0 /\ sorts = 0 /\ out = <<>>)
    /\ (kind \in LazyKinds /\ reads > 0) => (passes > 0 \/ calls > 0)
    /\ kind = "terminal" =>
          /\ pc \in {"start", "done", "failed"}
          /\ pc = "start" => result = NoResult
          /\ pc = "done" => result.thrown = NoThrow
          /\ pc = "failed" => result.thrown # NoThrow

C19_Witness ==
    /\ kind = "concat"
    /\ range = <<1, 2>>
    /\ otherRange = <<1>>
    /\ pc = "built"
    /\ reads = 0

Reverse(s) == [i \in 1 .. Len(s) |-> s[Len(s) + 1 - i]]

\* C20: traversing Concat(S1, S2) backward from end() down to begin() yields
\* the elements of S2 in reverse order followed by the elements of S1 in
\* reverse order - the exact reverse of the forward traversal - including
\* when S1 is empty or S2 is empty.
C20_ConcatBackwardIsReverse ==
    (kind = "concat" /\ passes > 0) =>
        /\ pc # "failed"
        /\ pc \in {"rtest", "rstep", "rbody"} =>
              IsPrefix(out, Reverse(otherRange) \o Reverse(range))
        /\ pc = "rdone" =>
              /\ out = Reverse(otherRange) \o Reverse(range)
              /\ out = Reverse(range \o otherRange)

C20_Witness ==
    /\ kind = "concat"
    /\ range = <<1, 1>>
    /\ otherRange = <<2, 1>>
    /\ pc = "rdone"
    /\ out = <<1, 2, 1, 1>>

\* C21: for a bidirectional source S, decrement takes an AppendView cursor
\* from InEnd to InAppend, from InAppend to InRange on the last element of
\* S and from InRange to the previous element; traversing from end() down
\* to begin() yields v followed by S in reverse order and never fails; and
\* for every cursor c reached from begin() other than end(), decrementing
\* the advanced cursor gives c back.
C21_AppendBackwardIsReverse ==
    kind = "append" =>
        /\ pc = "rstep" =>
              AppendIteratorDec(appendIt, range) =
                 CASE appendIt.position = "InEnd" ->
                         {Returned(AppendIterator(appendIt.it, "InAppend"))}
                   [] appendIt.position = "InAppend" ->
                         {Returned(AppendIterator(Len(range) - 1, "InRange"))}
                   [] appendIt.position = "InRange" ->
                         {Returned(AppendIterator(appendIt.it - 1, "InRange"))}
        /\ pc = "rbody" =>
              \A o \in AppendIteratorDeref(appendIt, range, value) :
                 o.thrown = NoThrow
        /\ pc \in {"rtest", "rstep", "rbody"} =>
              IsPrefix(out, <<adaptor.Value>> \o Reverse(range))
        /\ pc = "rdone" => out = <<adaptor.Value>> \o Reverse(range)
        /\ pc \in {"body", "step"} =>
              \A o \in AppendIteratorInc(appendIt, range) :
                 /\ o.thrown = NoThrow
                 /\ AppendIteratorDec(o.val, range) = {Returned(appendIt)}

C21_Witness ==
    /\ kind = "append"
    /\ range = <<1, 2>>
    /\ adaptor.Value = 3
    /\ pc = "rdone"
    /\ out = <<3, 2, 1>>

\* What the adaptor op of LastOps gives on rng when the range is
\* bidirectional (bidir) or only a forward range.
LastOutcomes(op, rng, p, bidir) ==
    CASE op = "Last" -> LastAdaptor(rng, bidir)
      [] op = "LastOrDefault" -> LastOrDefaultAdaptor(rng, bidir)
      [] op = "Last2" -> LastAdaptor2(rng, p, bidir)
      [] op = "LastOrDefault2" -> LastOrDefaultAdaptor2(rng, p, bidir)

\* C22: for every finite sequence and predicate, Last(), Last(pred),
\* LastOrDefault() and LastOrDefault(pred) produce the same outcome (the same
\* element, the same empty optional or the same failure) on the
\* backward-traversal path as on the forward-scan fallback.
C22_LastPathsAgree ==
    (kind = "terminal" /\ pc # "start" /\ adaptor.Op \in LastOps) =>
        /\ LastOutcomes(adaptor.Op, range, adaptor.Predicate, TRUE)
              = LastOutcomes(adaptor.Op, range, adaptor.Predicate, FALSE)
        /\ Cardinality(LastOutcomes(adaptor.Op, range, adaptor.Predicate,
                                    bidirectional)) = 1
        /\ result \in LastOutcomes(adaptor.Op, range, adaptor.Predicate,
                                   ~bidirectional)

C22_Witness ==
    /\ kind = "terminal"
    /\ adaptor.Op = "LastOrDefault2"
    /\ adaptor.Predicate = "odd"
    /\ bidirectional
    /\ range = <<1, 3, 2>>
    /\ pc = "done"
    /\ result = ReturnedValue(3)

\* C23: OrderedView's materialized buffer is owned by the view alone and
\* never exposed by reference: once the view is materialized, no operation
\* a caller can perform through the view or through the cursors begin()
\* and end() returned changes the contents or the order of the buffer.
C23_OrderedBufferNeverChanges ==
    [][(kind = "ordered" /\ sorted) => (sortedRange' = sortedRange)]_vars

\* The number of times the forward loop has advanced its cursor.
Advances == IF pc = "step" THEN Len(out) - 1 ELSE Len(out)

\* C24: for a source of length L, the AppendView cursor obtained from
\* begin() and advanced k times is InRange (on offset k) for every k < L,
\* InAppend for k = L and InEnd for k = L+1; the initial phase is InAppend
\* iff the source is empty, the switch to InAppend happens exactly on the
\* advance that moves the underlying cursor to the source's end, and
\* InAppend is never skipped.
C24_AppendPhaseAfterAdvances ==
    kind = "append" =>
        /\ AppendViewBegin(range).position = "InAppend" <=> range = <<>>
        /\ AppendViewBegin(range).position = "InRange" <=> range # <<>>
        /\ pc \in {"test", "body", "step", "done"} =>
              /\ Advances <= Len(range) + 1
              /\ Advances < Len(range) =>
                    appendIt = AppendIterator(Advances, "InRange")
              /\ Advances = Len(range) =>
                    appendIt = AppendIterator(Len(range), "InAppend")
              /\ Advances = Len(range) + 1 => appendIt.position = "InEnd"
        /\ (pc = "step" /\ appendIt.position = "InRange") =>
              \A o \in AppendIteratorInc(appendIt, range) :
                 /\ o.thrown = NoThrow
                 /\ o.val.position # "InEnd"
                 /\ o.val.position = "InAppend" <=> o.val.it = Len(range)

C24_Witness ==
    /\ kind = "append"
    /\ Len(range) = 2
    /\ pc = "test"
    /\ Len(out) = 2
    /\ appendIt = AppendIterator(2, "InAppend")

\* Every cursor value of the AppendView over rng.
AppendCursors(rng) ==
    {AppendIterator(i, p) : i \in 0 .. Len(rng), p \in AppendPosition}

\* C25: two AppendView cursors of the same view compare equal if and only
\* if they hold the same source position and the same phase tag; so a cursor
\* reached from begin() compares equal to end() exactly when its phase is
\* InEnd, and never earlier than after len(S)+1 advances.
C25_AppendEqualityIsPositionAndPhase ==
    (kind = "append" /\ pc \notin {"start", "built"}) =>
        /\ \A b \in AppendCursors(range) :
              AppendIteratorEq(appendIt, b) <=>
                 (appendIt.it = b.it /\ appendIt.position = b.position)
        /\ AppendIteratorEq(appendIt, AppendViewEnd(range)) <=>
              appendIt.position = "InEnd"
        /\ (/\ pc \in {"test", "body", "step", "done"}
            /\ AppendIteratorEq(appendIt, AppendViewEnd(range))) =>
              Advances = Len(range) + 1

C25_Witness ==
    /\ kind = "append"
    /\ Len(range) = 2
    /\ pc = "body"
    /\ appendIt.it = AppendViewEnd(range).it
    /\ appendIt.position = "InAppend"
    /\ ~AppendIteratorEq(appendIt, AppendViewEnd(range))

RECURSIVE ChunkAdvanced(_, _, _)
ChunkAdvanced(k, sz, rng) ==
    IF k = 0 THEN ChunkViewBegin(sz, rng)
    ELSE ChunkIteratorInc(ChunkAdvanced(k - 1, sz, rng), sz, rng)

\* The cursors the forward traversal dereferences, in order.
RECURSIVE ForwardCursors(_, _, _)
ForwardCursors(c, sz, rng) ==
    IF ChunkIteratorEq(c, ChunkViewEnd(sz, rng)) THEN <<>>
    ELSE <<c>> \o ForwardCursors(ChunkIteratorInc(c, sz, rng), sz, rng)

\* C28: for every bidirectional source S and n >= 1, traversing Chunk(S, n)
\* backward from end() down to begin() visits exactly the chunks of the
\* forward traversal, with the same [from, to) boundaries, in reverse order;
\* and for every cursor c reached from begin() by advancing and different
\* from end(), decrementing the advanced cursor yields a cursor that
\* dereferences to the same chunk as c - also when len(S) is not a multiple
\* of n.
C28_ChunkBackwardVisitsForwardChunks ==
    kind = "chunk" =>
        LET forward == ForwardCursors(ChunkViewBegin(size, range), size, range)
        IN  /\ pc = "rbody" =>
                  \E i \in 1 .. Len(forward) :
                     ChunkIteratorDeref(chunkIt) = ChunkIteratorDeref(forward[i])
            /\ pc = "rdone" =>
                  out = Reverse([i \in 1 .. Len(forward) |->
                            SubrangeElements(range, ChunkIteratorDeref(forward[i]))])
            /\ pc \in {"body", "step"} =>
                  ChunkIteratorDeref(
                      ChunkIteratorDec(ChunkIteratorInc(chunkIt, size, range),
                                       size, range))
                     = ChunkIteratorDeref(chunkIt)

\* C29: any two chunk cursors of the same ChunkView that are reachable from
\* begin() or end() by advance and decrement steps and that compare equal
\* dereference to the same chunk: they agree on to as well as on from.
C29_EqualChunkCursorsSameChunk ==
    (kind = "chunk" /\ pc \notin {"start", "built", "failed"}) =>
        \A k \in 0 .. Len(range) :
           ChunkIteratorEq(chunkIt, ChunkAdvanced(k, size, range)) =>
              ChunkIteratorDeref(chunkIt)
                 = ChunkIteratorDeref(ChunkAdvanced(k, size, range))

\* C30: advancing a Concat cursor that is in the first source advances the
\* first-source cursor and, exactly when that reaches the first source's
\* end, flips the in-second flag to true and sets the second-source cursor
\* to the second source's start; advancing a cursor already in the second
\* source advances only the second-source cursor; under advance the flag
\* never returns to false, and begin() starts with the flag true iff the
\* first source is empty.
C30_ConcatAdvance ==
    kind = "concat" =>
        /\ ConcatViewBegin(range, otherRange).isInSecond <=> range = <<>>
        /\ ConcatViewBegin(range, otherRange).firstIt = 0
        /\ ConcatViewBegin(range, otherRange).secondIt = 0
        /\ (pc = "step" /\ ~concatIt.isInSecond) =>
              \A o \in ConcatIteratorInc(concatIt, range, otherRange) :
                 /\ o.thrown = NoThrow
                 /\ o.val.firstIt = concatIt.firstIt + 1
                 /\ o.val.isInSecond <=> o.val.firstIt = Len(range)
                 /\ o.val.isInSecond => o.val.secondIt = 0
                 /\ ~o.val.isInSecond => o.val.secondIt = concatIt.secondIt
        /\ (pc = "step" /\ concatIt.isInSecond) =>
              \A o \in ConcatIteratorInc(concatIt, range, otherRange) :
                 /\ o.thrown = NoThrow
                 /\ o.val = [concatIt EXCEPT !.secondIt = concatIt.secondIt + 1]
        /\ pc \in {"test", "body", "step", "done"} =>
              (concatIt.isInSecond <=> Advances >= Len(range))

C30_Witness ==
    /\ kind = "concat"
    /\ range = <<1, 2>>
    /\ otherRange = <<1>>
    /\ pc = "test"
    /\ out = <<1, 2>>
    /\ concatIt = [isInSecond |-> TRUE, firstIt |-> 2, secondIt |-> 0]

\* Every cursor value of the ConcatView over first and second.
ConcatCursors(first, second) ==
    {[isInSecond |-> b, firstIt |-> i, secondIt |-> j] :
        b \in BOOLEAN, i \in 0 .. Len(first), j \in 0 .. Len(second)}

\* C31: two Concat cursors of the same view compare equal if and only if
\* their in-second flags are equal and, when both are in the second source,
\* their second-source cursors are equal, otherwise their first-source
\* cursors are equal; the cursor of the inactive source never influences
\* the comparison.
C31_ConcatEquality ==
    (kind = "concat" /\ pc \notin {"start", "built"}) =>
        \A b \in ConcatCursors(range, otherRange) :
           /\ ConcatIteratorEq(concatIt, b) <=>
                 /\ concatIt.isInSecond = b.isInSecond
                 /\ (concatIt.isInSecond /\ b.isInSecond) =>
                       concatIt.secondIt = b.secondIt
                 /\ ~(concatIt.isInSecond /\ b.isInSecond) =>
                       concatIt.firstIt = b.firstIt
           /\ (/\ concatIt.isInSecond
               /\ b.isInSecond
               /\ concatIt.secondIt = b.secondIt) => ConcatIteratorEq(concatIt, b)
           /\ (/\ ~concatIt.isInSecond
               /\ ~b.isInSecond
               /\ concatIt.firstIt = b.firstIt) => ConcatIteratorEq(concatIt, b)

C31_Witness ==
    /\ kind = "concat"
    /\ Len(range) = 2
    /\ Len(otherRange) = 1
    /\ pc = "done"
    /\ concatIt = [isInSecond |-> TRUE, firstIt |-> 2, secondIt |-> 1]
    /\ ConcatIteratorEq(concatIt, ConcatViewEnd(range, otherRange))
    /\ ~ConcatIteratorEq(concatIt, ConcatViewBegin(range, otherRange))

\* C32: for bidirectional sources, decrementing a Concat cursor that is in
\* the second source at the second source's start flips the flag to false
\* and sets the first-source cursor to the element immediately before the
\* first source's end; so for every cursor c reached from begin() other
\* than end(), advancing c and then decrementing returns a cursor equal to
\* c that dereferences to the same element, also when the advance crosses
\* the boundary between the two sources.
C32_ConcatDecrementAcrossBoundary ==
    kind = "concat" =>
        /\ (pc = "rstep" /\ concatIt.isInSecond /\ concatIt.secondIt = 0) =>
              ConcatIteratorDec(concatIt, range, otherRange) =
                 {Returned([concatIt EXCEPT !.isInSecond = FALSE,
                                            !.firstIt = Len(range) - 1])}
        /\ pc \in {"body", "step"} =>
              \A o \in ConcatIteratorInc(concatIt, range, otherRange) :
                 /\ o.thrown = NoThrow
                 /\ \A d \in ConcatIteratorDec(o.val, range, otherRange) :
                       /\ d.thrown = NoThrow
                       /\ ConcatIteratorEq(d.val, concatIt)
                       /\ ConcatIteratorDeref(d.val, range, otherRange)
                             = ConcatIteratorDeref(concatIt, range, otherRange)

C32_Witness ==
    /\ kind = "concat"
    /\ Len(range) = 2
    /\ Len(otherRange) = 1
    /\ pc = "rbody"
    /\ Len(out) = 1
    /\ concatIt = [isInSecond |-> FALSE, firstIt |-> 1, secondIt |-> 0]

\* C33: for every Concat cursor reached from begin() by advancing (and from
\* end() by decrementing not below begin()), if the in-second flag is false
\* then the first-source cursor is strictly before the first source's end;
\* hence every such cursor that is not equal to end() denotes a
\* dereferenceable element, and a cursor whose active-source cursor is at
\* that source's end is equal to end() - also when the second source is
\* empty.
C33_ConcatCursorInFirstIsBeforeEnd ==
    (kind = "concat" /\ pc \notin {"start", "built", "failed"}) =>
        /\ ~concatIt.isInSecond => concatIt.firstIt < Len(range)
        /\ ~ConcatIteratorEq(concatIt, ConcatViewEnd(range, otherRange)) =>
              \E v \in Values :
                 ConcatIteratorDeref(concatIt, range, otherRange) = {Returned(v)}
        /\ (IF concatIt.isInSecond
            THEN concatIt.secondIt = Len(otherRange)
            ELSE concatIt.firstIt = Len(range)) =>
              ConcatIteratorEq(concatIt, ConcatViewEnd(range, otherRange))

C33_Witness ==
    /\ kind = "concat"
    /\ Len(range) = 2
    /\ otherRange = <<>>
    /\ pc = "done"
    /\ out = range
    /\ concatIt = [isInSecond |-> TRUE, firstIt |-> 2, secondIt |-> 0]

\* C34: for every AppendView cursor reached from begin() or end() by
\* advance and decrement steps within [begin(), end()], the phase and the
\* underlying cursor are coupled: the phase is InRange iff the underlying
\* cursor is strictly before the source's end, and in InAppend and InEnd
\* the underlying cursor equals the source's end - so the cursor reached
\* after len(S)+1 advances compares equal to end().
C34_AppendPhaseCoupledWithCursor ==
    (kind = "append" /\ pc \notin {"start", "built"}) =>
        /\ appendIt.position = "InRange" <=> appendIt.it < Len(range)
        /\ appendIt.position \in {"InAppend", "InEnd"} =>
              appendIt.it = Len(range)
        /\ (/\ pc \in {"test", "body", "step", "done"}
            /\ Advances = Len(range) + 1) =>
              AppendIteratorEq(appendIt, AppendViewEnd(range))

C34_Witness ==
    /\ kind = "append"
    /\ Len(range) = 2
    /\ pc = "rbody"
    /\ Len(out) = 1
    /\ appendIt = AppendIterator(1, "InRange")

\* C35: once an OrderedView has materialized its buffer (at its first
\* begin() or end() call, from the source as it is then), changes of the
\* borrowed source no longer reach it: the buffer stays what it was, and
\* every traversal that runs to the end yields exactly the buffer, so every
\* later traversal yields what the first one did.
C35_OrderedViewIsSnapshot ==
    /\ [](kind = "ordered" /\ pc = "done" => out = sortedRange)
    /\ [][(kind = "ordered") =>
             /\ (calls = 0 /\ calls' = 1) =>
                   sortedRange' \in RangesSort(range, comparer, projection)
             /\ (calls >= 1) => sortedRange' = sortedRange]_vars

\* {3, 1, 2} | Order() was traversed, the source became {1, 1, 2}, and the
\* second traversal has yielded 1 2 3 again.
C35_Witness ==
    /\ kind = "ordered"
    /\ passes = 2
    /\ pc = "done"
    /\ range = <<1, 1, 2>>
    /\ out = <<1, 2, 3>>
    /\ comparer = "less"
    /\ projection = "identity"

\* C36: whenever the materialized flag of an OrderedView is set, its buffer
\* is a permutation of the source's elements sorted by the comparer on the
\* projected keys, also after the first begin() or end() call was left by
\* an exception of the projection.
C36_FlagImpliesSortedBuffer ==
    (kind = "ordered" /\ sorted) =>
        /\ IsPermutationOf(sortedRange, range)
        /\ IsSortedBy(sortedRange, comparer, projection)

\* C37: for every start and every count >= 0, iterating Range(start, count)
\* yields exactly the count consecutive integers start, start + 1, ...,
\* start + count - 1 (nothing when count = 0).
C37_RangeYieldsCountIntegers ==
    (kind = "range" /\ count >= 0 /\ pc = "done") =>
        out = [i \in 1 .. count |-> start + i - 1]
====
